---- MODULE Spec2Model ----
(***************************************************************************)
(* A model of django-pg-migration-tools:                                   *)
(*   - timeouts.apply_timeouts, the scoped lock/statement timeouts, over a *)
(*     model of one PostgreSQL connection (session and transaction-local   *)
(*     settings, transactions, savepoints, aborted transactions);          *)
(*   - the migrate_with_timeouts runner and its MigrateRetryStrategy;      *)
(*   - the safe operation managers of operations.py over a model of the    *)
(*     schema objects they introspect and change.                          *)
(* Durations are integers in milliseconds.                                 *)
(***************************************************************************)
EXTENDS Integers, Sequences, FiniteSets, TLC

VARIABLES
    conn,       \* the database connection: settings, transaction state
    ctx,        \* the open `with` blocks, innermost last: scopes and atomics
    exc,        \* the exception that is propagating ("none" in cls if none)
    lastExit,   \* observation: the last apply_timeouts scope that was left
    opened,     \* how many `with` blocks have been entered so far
    rpc,        \* runner: where Command.handle is
    opts,       \* runner: MigrationTimeoutOptions
    retries,    \* runner: MigrateRetryStrategy.retries
    rframe,     \* runner: the apply_timeouts scope of the current attempt
    rexc,       \* runner: the exception an attempt raised / handle raised
    attempts,   \* observation: how many times the wrapped migrate was started
    trace,      \* observation: the runner's events, in order
    slept,      \* observation: the arguments of time.sleep, in order
    report,     \* observation: the numbers MaximumRetriesReached cites
    schema,     \* the schema objects the operation managers act on
    op,         \* the migration operation: which manager, its arguments
    pc,         \* operation: "idle", "running", "returned" or "raised"
    plan,       \* operation: the statements the running manager still issues
    oexc,       \* operation: the class of the exception it raised
    orig,       \* operation: original_lock_timeout, as SHOWn
    stmts,      \* observation: the statements of the current invocation
    collected,  \* operation: schema_editor.collected_sql
    start,      \* observation: the schema when the current invocation began
    origin,     \* observation: the schema before the first invocation
    prior,      \* observation: how the previous invocation ended
    invoked,    \* how many times the operation has been invoked
    ident       \* build_postgres_identifier: its arguments and what it returned

connVars == <<conn, ctx, exc, lastExit, opened>>
runVars == <<rpc, opts, retries, rframe, rexc, attempts, trace, slept, report>>
opsVars == <<schema, op, pc, plan, oexc, orig, stmts, collected, start, origin,
            prior, invoked, ident>>
vars == <<conn, ctx, exc, lastExit, opened, rpc, opts, retries, rframe, rexc,
          attempts, trace, slept, report, schema, op, pc, plan, oexc, orig,
          stmts, collected, start, origin, prior, invoked, ident>>

(***************************************************************************)
(* Bounds of the model                                                     *)
(***************************************************************************)
\* How many times one operation is invoked.
MaxInvocations == 3
\* Largest max_retries explored.
MaxRetries == 2
\* Largest backoff exponent base explored.
MaxExp == 3
\* Largest retry counter given to wait() when it is called on its own.
MaxN == 5
\* Stand-in for the largest finite float: exp ** n above it overflows.
MaxFloat == 100
\* How many `with` blocks (scopes and atomic blocks together) one run enters.
MaxBlocks == 3

Max(a, b) == IF a >= b THEN a ELSE b
Min(a, b) == IF a <= b THEN a ELSE b

NoExc == [cls |-> "none", msg |-> ""]
NoFrame == [kind |-> "none"]

(***************************************************************************)
(* PostgreSQL: how a duration setting is shown and read                    *)
(***************************************************************************)
UnitMs(unit) ==
    CASE unit = "ms" -> 1
      [] unit = "s" -> 1000
      [] unit = "min" -> 60000
      [] OTHER -> 1

\* SHOW lock_timeout / SHOW statement_timeout: the value in the largest unit
\* that divides it, "0" (no unit) when the timeout is disabled.
ShowGuc(ms) ==
    IF ms = 0 THEN <<0, "">>
    ELSE IF ms % 60000 = 0 THEN <<ms \div 60000, "min">>
    ELSE IF ms % 1000 = 0 THEN <<ms \div 1000, "s">>
    ELSE <<ms, "ms">>

\* The value a SET statement stores for a text such as '5s' or '1500ms'.
ParseGuc(text) == text[1] * UnitMs(text[2])

\* f"{lock_timeout_in_ms}ms"
MsText(ms) == <<ms, "ms">>

(***************************************************************************)
(* The connection.  sess: the session-level settings; eff: the settings in *)
(* effect (session value unless SET LOCAL overrode it in the open          *)
(* transaction); snaps: one snapshot of eff per open transaction level     *)
(* (transaction, then savepoints), taken when the level began; aborted:    *)
(* the open transaction is in the failed state.                            *)
(***************************************************************************)
Gucs == {"lock_timeout", "statement_timeout"}

\* A new connection has both timeouts disabled.
ServerDefaults == [lock_timeout |-> 0, statement_timeout |-> 0]

NewConnection ==
    [sess |-> ServerDefaults, eff |-> ServerDefaults, snaps |-> <<>>,
     aborted |-> FALSE]

\* transaction.get_autocommit() is False / conn.in_atomic_block
InAtomicBlock(c) == Len(c.snaps) > 0

\* conn.is_usable(): the ping fails in an aborted transaction
IsUsable(c) == ~c.aborted

\* SET SESSION g = v
SetSession(c, g, v) ==
    [c EXCEPT !.sess = [@ EXCEPT ![g] = v], !.eff = [@ EXCEPT ![g] = v]]

\* SET LOCAL g = v: no effect outside a transaction
SetLocal(c, g, v) ==
    IF InAtomicBlock(c) THEN [c EXCEPT !.eff = [@ EXCEPT ![g] = v]] ELSE c

SetGuc(c, level, g, v) ==
    IF level = "LOCAL" THEN SetLocal(c, g, v) ELSE SetSession(c, g, v)

\* BEGIN, or SAVEPOINT inside a transaction
Begin(c) == [c EXCEPT !.snaps = Append(@, c.eff)]

\* COMMIT ends every LOCAL setting; RELEASE SAVEPOINT keeps them
Commit(c) ==
    IF Len(c.snaps) = 1
    THEN [c EXCEPT !.snaps = <<>>, !.eff = c.sess, !.aborted = FALSE]
    ELSE [c EXCEPT !.snaps = SubSeq(@, 1, Len(@) - 1)]

\* ROLLBACK ends every LOCAL setting; ROLLBACK TO SAVEPOINT undoes the
\* settings made since the savepoint
Rollback(c) ==
    IF Len(c.snaps) = 1
    THEN [c EXCEPT !.snaps = <<>>, !.eff = c.sess, !.aborted = FALSE]
    ELSE [c EXCEPT !.snaps = SubSeq(@, 1, Len(@) - 1),
                   !.eff = c.snaps[Len(c.snaps)], !.aborted = FALSE]

\* A statement that fails inside a transaction aborts the transaction
FailStatement(c) == IF InAtomicBlock(c) THEN [c EXCEPT !.aborted = TRUE] ELSE c

\* conn.close_if_unusable_or_obsolete(); conn.connect()
Reconnect(c) == NewConnection

(***************************************************************************)
(* Exceptions: a class and the text of the message                         *)
(***************************************************************************)
LockMsg == "canceling statement due to lock timeout"
StmtMsg == "canceling statement due to statement timeout"

OperationalErrorClasses ==
    {"OperationalError", "DBTimeoutError", "DBLockTimeoutError",
     "DBStatementTimeoutError"}

IsOperationalError(e) == e.cls \in OperationalErrorClasses

\* The failed-transaction error of a statement sent in an aborted transaction
InFailedTransaction == [cls |-> "InternalError", msg |-> "aborted"]

(***************************************************************************)
(* timeouts.apply_timeouts                                                 *)
(***************************************************************************)
\* A scope keyword that ignores the transaction
LockLevelAlwaysSession(c) == "SESSION"

\* _in_transaction
LockLevel(c) == IF InAtomicBlock(c) THEN "LOCAL" ELSE "SESSION"

\* A validation that lets lock_timeout = statement_timeout through
ConfigErrorLax(c, lt, st, ctl) ==
    IF lt = -1 /\ st = -1 THEN "TimeoutNotProvided"
    ELSE IF (lt # -1 /\ lt <= 0) \/ (st # -1 /\ st <= 0)
        THEN "TimeoutWasNotPositive"
    ELSE IF lt # -1 /\ st # -1 /\ lt > st THEN "RedundantLockTimeout"
    ELSE IF LockLevel(c) = "LOCAL" /\ ctl
        THEN "CloseTransactionLeakInsideTransaction"
    ELSE "none"

\* The configuration errors raised before any statement; "none" if valid.
\* lt, st: milliseconds, or -1 for None.
ConfigError(c, lt, st, ctl) ==
    IF lt = -1 /\ st = -1 THEN "TimeoutNotProvided"
    ELSE IF (lt # -1 /\ lt <= 0) \/ (st # -1 /\ st <= 0)
        THEN "TimeoutWasNotPositive"
    ELSE IF lt # -1 /\ st # -1 /\ lt >= st THEN "RedundantLockTimeout"
    ELSE IF LockLevel(c) = "LOCAL" /\ ctl
        THEN "CloseTransactionLeakInsideTransaction"
    ELSE "none"

\* The frame a scope keeps: previous_lock_timeout, previous_statement_timeout
\* (<<>> for None), lock_level, close_transaction_leak; `before` observes the
\* settings in effect when the scope was entered.
ScopeFrame(c, lt, st, ctl) ==
    [kind |-> "scope", level |-> LockLevel(c), ctl |-> ctl,
     prevLock |-> IF lt # -1 THEN ShowGuc(c.eff.lock_timeout) ELSE <<>>,
     prevStmt |-> IF st # -1 THEN ShowGuc(c.eff.statement_timeout) ELSE <<>>,
     before |-> c.eff]

\* SHOW and SET of each timeout given
ScopeEnterConn(c, lt, st) ==
    LET lvl == LockLevel(c)
        c1 == IF lt # -1 THEN SetGuc(c, lvl, "lock_timeout", ParseGuc(MsText(lt)))
              ELSE c
    IN IF st # -1 THEN SetGuc(c1, lvl, "statement_timeout", ParseGuc(MsText(st)))
       ELSE c1

\* A reset that restores the statement_timeout alone
ResetTimeoutsStatementOnly(c, f) ==
    IF f.prevStmt # <<>>
    THEN SetGuc(c, f.level, "statement_timeout", ParseGuc(f.prevStmt))
    ELSE c

\* _reset_timeouts: SET <lock_level> of each previous value that was stored
ResetTimeouts(c, f) ==
    LET c1 == IF f.prevLock # <<>>
              THEN SetGuc(c, f.level, "lock_timeout", ParseGuc(f.prevLock))
              ELSE c
    IN IF f.prevStmt # <<>>
       THEN SetGuc(c1, f.level, "statement_timeout", ParseGuc(f.prevStmt))
       ELSE c1

\* A handler that tells the timeouts apart by the word "timeout" alone
ClassifyAnyTimeout(e) ==
    IF ~IsOperationalError(e) THEN e
    ELSE IF e.msg \in {LockMsg, StmtMsg}
        THEN [cls |-> "DBLockTimeoutError", msg |-> ""]
    ELSE e

\* A handler that takes every timeout error of an inner scope for a lock
\* timeout
ClassifyByBaseClass(e) ==
    IF ~IsOperationalError(e) THEN e
    ELSE IF e.msg = LockMsg \/ e.cls = "DBStatementTimeoutError"
         THEN [cls |-> "DBLockTimeoutError", msg |-> ""]
    ELSE IF e.msg = StmtMsg THEN [cls |-> "DBStatementTimeoutError", msg |-> ""]
    ELSE e

\* except utils.OperationalError as exc: the exception that leaves the handler
Classify(e) ==
    IF ~IsOperationalError(e) THEN e
    ELSE IF e.msg = LockMsg THEN [cls |-> "DBLockTimeoutError", msg |-> ""]
    ELSE IF e.msg = StmtMsg THEN [cls |-> "DBStatementTimeoutError", msg |-> ""]
    ELSE e

\* whether ScopeTry runs _reset_timeouts: LOCAL level, wrapped code succeeded
LocalResetOnSuccess(f, e) == f.level = "LOCAL" /\ e = NoExc

\* try: yield, the LOCAL reset on success; except OperationalError.
\* e: what the wrapped code raised (NoExc if it returned).
ScopeTry(c, f, e) ==
    IF LocalResetOnSuccess(f, e)
    THEN IF c.aborted
         THEN [conn |-> c, exc |-> InFailedTransaction]
         ELSE [conn |-> ResetTimeouts(c, f), exc |-> NoExc]
    ELSE [conn |-> c, exc |-> Classify(e)]

\* An exit that closes every unusable connection, asked to or not
ScopeFinallyAlwaysCloses(c, f, e) ==
    IF f.level = "SESSION"
    THEN IF InAtomicBlock(c)
         THEN IF ~IsUsable(c)
              THEN [conn |-> ResetTimeouts(Reconnect(c), f), exc |-> e]
              ELSE [conn |-> c,
                    exc |-> [cls |-> "UnsupportedTimeoutBehaviour", msg |-> ""]]
         ELSE [conn |-> ResetTimeouts(c, f), exc |-> e]
    ELSE [conn |-> c, exc |-> e]

\* finally: the SESSION reset, the leaked transaction
ScopeFinally(c, f, e) ==
    IF f.level = "SESSION"
    THEN IF InAtomicBlock(c)
         THEN IF f.ctl /\ ~IsUsable(c)
              THEN [conn |-> ResetTimeouts(Reconnect(c), f), exc |-> e]
              ELSE [conn |-> c,
                    exc |-> [cls |-> "UnsupportedTimeoutBehaviour", msg |-> ""]]
         ELSE [conn |-> ResetTimeouts(c, f), exc |-> e]
    ELSE [conn |-> c, exc |-> e]

\* Leaving the scope f on connection c: the connection afterwards and the
\* exception that leaves the `with` statement (NoExc if none).
ScopeExit(c, f, e) ==
    LET t == ScopeTry(c, f, e) IN ScopeFinally(t.conn, f, t.exc)

\* What an observer records about a scope that was left.
ExitRecord(c, f, e) ==
    LET x == ScopeExit(c, f, e)
    IN [left |-> TRUE, raised |-> e # NoExc, level |-> f.level,
        setLock |-> f.prevLock # <<>>, setStmt |-> f.prevStmt # <<>>,
        before |-> f.before, after |-> x.conn.eff,
        out |-> x.exc.cls, leaked |-> f.level = "SESSION" /\ InAtomicBlock(c),
        came |-> e.cls]

NoExit ==
    [left |-> FALSE, raised |-> FALSE, level |-> "SESSION", setLock |-> FALSE,
     setStmt |-> FALSE, before |-> ServerDefaults, after |-> ServerDefaults,
     out |-> "none", leaked |-> FALSE, came |-> "none"]

(***************************************************************************)
(* MigrateRetryStrategy                                                    *)
(***************************************************************************)
\* can_migrate
\* A ceiling that is one attempt short
CanMigrateStrict(r, max_retries) == r < max_retries

CanMigrate(r, max_retries) == r = 0 \/ r <= max_retries

\* exp ** float(retries): -1 stands for OverflowError
RECURSIVE PowFloat(_, _)
PowFloat(b, n) ==
    IF n = 0 THEN 1
    ELSE LET p == PowFloat(b, n - 1)
         IN IF p = -1 \/ p * b > MaxFloat THEN -1 ELSE p * b

\* result, in milliseconds: the power in seconds, max_wait on overflow
WaitResult(exp, max_wait, n) ==
    IF PowFloat(exp, n) = -1 THEN max_wait ELSE PowFloat(exp, n) * 1000

\* A wait that is not capped by max_wait
WaitMsUncapped(exp, min_wait, max_wait, n) ==
    Max(min_wait, WaitResult(exp, max_wait, n))

\* A wait whose exponential is scaled by min_wait
WaitMsScaled(exp, min_wait, max_wait, n) ==
    Max(min_wait, Min((min_wait * WaitResult(exp, max_wait, n)) \div 1000, max_wait))

\* wait = max(min_wait, min(result, max_wait))
WaitMs(exp, min_wait, max_wait, n) ==
    Max(min_wait, Min(WaitResult(exp, max_wait, n), max_wait))

\* A wait() that sleeps even when no attempt can follow
WaitSleepsAlways(o, r) == <<WaitMs(o.exp, o.min_wait, o.max_wait, r)>>

\* wait(): the arguments of the time.sleep calls it makes
WaitSleeps(o, r) ==
    IF ~CanMigrate(r, o.max_retries) THEN <<>>
    ELSE <<WaitMs(o.exp, o.min_wait, o.max_wait, r)>>

\* TimeoutRetryOptions.validate and MigrationTimeoutOptions.validate
OptionsValid(o) ==
    /\ ~(o.statement_timeout = -1 /\ o.lock_timeout = -1)
    /\ ~(o.min_wait > o.max_wait)

(***************************************************************************)
(* Inputs explored                                                         *)
(***************************************************************************)
\* Settings a session may have when the program starts using it.
InitialSettings ==
    {ServerDefaults, [lock_timeout |-> 1000, statement_timeout |-> 120000]}

InitialConnections ==
    {[sess |-> s, eff |-> s, snaps |-> <<>>, aborted |-> FALSE] :
        s \in InitialSettings}

\* min_wait / max_wait values, milliseconds
WaitValues == {0, 1000, 20000, 40000}

\* (lock_timeout, statement_timeout) given to the runner; -1 is None
RunnerTimeouts == {<<-1, -1>>, <<2000, -1>>, <<-1, 60000>>, <<2000, 60000>>}

RunnerOptions ==
    {[max_retries |-> k, exp |-> e, min_wait |-> w[1], max_wait |-> w[2],
      callback |-> cb, lock_timeout |-> t[1], statement_timeout |-> t[2]] :
        k \in 0..MaxRetries, e \in {0, 2, MaxExp},
        w \in {<<1000, 20000>>, <<3000, 10000>>, <<40000, 20000>>},
        cb \in BOOLEAN, t \in RunnerTimeouts}

\* Options of a MigrateRetryStrategy built directly, as the unit tests do
WaitOptions ==
    {[max_retries |-> k, exp |-> e, min_wait |-> lo, max_wait |-> hi,
      callback |-> FALSE, lock_timeout |-> -1, statement_timeout |-> -1] :
        k \in {0, MaxN}, e \in 0..MaxExp, lo \in WaitValues, hi \in WaitValues}

\* What the wrapped code of a block may raise
OperationalErrors ==
    {[cls |-> "OperationalError", msg |-> m] : m \in {LockMsg, StmtMsg, "other"}}

TimeoutErrors ==
    {[cls |-> c, msg |-> ""] : c \in {"DBLockTimeoutError", "DBStatementTimeoutError"}}

OtherError == [cls |-> "ValueError", msg |-> "other"]

\* A database no operation manager is working on
DefaultSchema ==
    [idx |-> "absent", uq |-> FALSE, nn |-> FALSE, chk |-> "absent",
     col |-> FALSE, fkidx |-> "absent", fkcon |-> "absent"]

IdleOp ==
    [kind |-> "none", condition |-> FALSE, raise_if_exists |-> FALSE,
     db_index |-> FALSE, null |-> TRUE, allow |-> TRUE, collect |-> FALSE]

\* build_postgres_identifier has not been called
NoIdentifier == [items |-> <<>>, suffix |-> <<>>, name |-> <<>>, built |-> FALSE]

OpsIdle ==
    /\ schema = DefaultSchema /\ op = IdleOp /\ pc = "idle" /\ plan = <<>>
    /\ oexc = "none" /\ orig = <<0, "">> /\ stmts = <<>> /\ collected = <<>>
    /\ start = DefaultSchema /\ origin = DefaultSchema /\ prior = "none"
    /\ invoked = 0

IdleOptions ==
    [max_retries |-> 0, exp |-> 0, min_wait |-> 0, max_wait |-> 0,
     callback |-> FALSE, lock_timeout |-> -1, statement_timeout |-> -1]

Event(ev, n) == [ev |-> ev, n |-> n]

(***************************************************************************)
(* Command.handle of migrate_with_timeouts, step by step                   *)
(***************************************************************************)
\* timeout_options.validate()
RunnerValidate ==
    /\ rpc = "start"
    /\ IF OptionsValid(opts)
       THEN rpc' = "loop" /\ rexc' = rexc
       ELSE rpc' = "raised" /\ rexc' = [cls |-> "ValueError", msg |-> "options"]
    /\ UNCHANGED <<opsVars, connVars, opts, retries, rframe, attempts, trace, slept, report>>

\* while retry_strategy.can_migrate(): ... raise MaximumRetriesReached
RunnerLoop ==
    /\ rpc = "loop"
    /\ IF CanMigrate(retries, opts.max_retries)
       THEN rpc' = "enter" /\ rexc' = rexc /\ report' = report
       ELSE /\ rpc' = "raised"
            /\ rexc' = [cls |-> "MaximumRetriesReached", msg |-> ""]
            /\ report' = <<retries, opts.max_retries>>
    /\ UNCHANGED <<opsVars, connVars, opts, retries, rframe, attempts, trace, slept>>

\* with timeouts.apply_timeouts(...): the checks, SHOW and SET
RunnerEnter ==
    /\ rpc = "enter"
    /\ LET err == ConfigError(conn, opts.lock_timeout, opts.statement_timeout, FALSE)
       IN IF err # "none"
          THEN /\ rpc' = "raised"
               /\ rexc' = [cls |-> err, msg |-> ""]
               /\ UNCHANGED <<conn, rframe>>
          ELSE /\ rpc' = "migrate"
               /\ rframe' = ScopeFrame(conn, opts.lock_timeout,
                                       opts.statement_timeout, FALSE)
               /\ conn' = ScopeEnterConn(conn, opts.lock_timeout,
                                         opts.statement_timeout)
               /\ rexc' = rexc
    /\ UNCHANGED <<opsVars, ctx, exc, lastExit, opened, opts, retries, attempts, trace, slept, report>>

\* super().handle(...): returns, or raises e; a failure of the deferred SQL
\* of an atomic migration leaves the aborted transaction open (leak)
RunnerMigrate(e, leak) ==
    /\ rpc = "migrate"
    /\ leak => IsOperationalError(e)
    /\ attempts' = attempts + 1
    /\ trace' = Append(trace, Event("attempt", retries))
    /\ rexc' = e
    /\ conn' = IF leak THEN FailStatement(Begin(conn)) ELSE conn
    /\ rpc' = "exit"
    /\ UNCHANGED <<opsVars, ctx, exc, lastExit, opened, opts, retries, rframe, slept, report>>

\* A handler that catches the common base class DBTimeoutError
RetryableAnyTimeout(e) ==
    e.cls \in {"DBLockTimeoutError", "DBStatementTimeoutError"}

\* except timeouts.DBLockTimeoutError as exc:
Retryable(e) == e.cls = "DBLockTimeoutError"

\* leaving the with block; return, except DBLockTimeoutError, or propagate
RunnerExit ==
    /\ rpc = "exit"
    /\ LET x == ScopeExit(conn, rframe, rexc)
       IN /\ conn' = x.conn
          /\ rexc' = x.exc
          /\ lastExit' = ExitRecord(conn, rframe, rexc)
          /\ rpc' = IF x.exc = NoExc THEN "done"
                    ELSE IF Retryable(x.exc) THEN "increment"
                    ELSE "raised"
          /\ trace' = IF x.exc.cls = "DBLockTimeoutError"
                      THEN Append(trace, Event("lock_timeout", retries))
                      ELSE trace
    /\ rframe' = NoFrame
    /\ UNCHANGED <<opsVars, ctx, exc, opened, opts, retries, attempts, slept, report>>

\* An increment_retry_count that counts every lock timeout twice
RunnerIncrementTwice ==
    /\ rpc = "increment"
    /\ retries' = retries + 2
    /\ trace' = Append(trace, Event("increment", retries + 2))
    /\ rpc' = "wait"
    /\ UNCHANGED <<opsVars, connVars, opts, rframe, rexc, attempts, slept, report>>

\* retry_strategy.increment_retry_count()
RunnerIncrement ==
    /\ rpc = "increment"
    /\ retries' = retries + 1
    /\ trace' = Append(trace, Event("increment", retries + 1))
    /\ rpc' = "wait"
    /\ UNCHANGED <<opsVars, connVars, opts, rframe, rexc, attempts, slept, report>>

\* retry_strategy.wait()
RunnerWait ==
    /\ rpc = "wait"
    /\ slept' = slept \o WaitSleeps(opts, retries)
    /\ trace' = IF WaitSleeps(opts, retries) = <<>> THEN trace
                ELSE Append(trace, Event("sleep", WaitSleeps(opts, retries)[1]))
    /\ rpc' = "callback"
    /\ UNCHANGED <<opsVars, connVars, opts, retries, rframe, rexc, attempts, report>>

\* An attempt_callback that is skipped once no attempt can follow
RunnerCallbackWhileRetrying(raises) ==
    /\ rpc = "callback"
    /\ raises => opts.callback /\ CanMigrate(retries, opts.max_retries)
    /\ trace' = IF opts.callback /\ CanMigrate(retries, opts.max_retries)
                THEN Append(trace, Event("callback", retries))
                ELSE trace
    /\ IF raises
       THEN rpc' = "raised" /\ rexc' = [cls |-> "Exception", msg |-> "callback"]
       ELSE rpc' = "loop" /\ rexc' = rexc
    /\ UNCHANGED <<opsVars, connVars, opts, retries, rframe, attempts, slept, report>>

\* retry_strategy.attempt_callback(...): the callback returns or raises
RunnerCallback(raises) ==
    /\ rpc = "callback"
    /\ raises => opts.callback
    /\ trace' = IF opts.callback
                THEN Append(trace, Event("callback", retries))
                ELSE trace
    /\ IF raises
       THEN rpc' = "raised" /\ rexc' = [cls |-> "Exception", msg |-> "callback"]
       ELSE rpc' = "loop" /\ rexc' = rexc
    /\ UNCHANGED <<opsVars, connVars, opts, retries, rframe, attempts, slept, report>>

RunnerInit ==
    /\ OpsIdle /\ ident = NoIdentifier
    /\ conn \in InitialConnections
    /\ ctx = <<>> /\ exc = NoExc /\ lastExit = NoExit /\ opened = 0
    /\ rpc = "start"
    /\ opts \in RunnerOptions
    /\ retries = 0 /\ rframe = NoFrame /\ rexc = NoExc
    /\ attempts = 0 /\ trace = <<>> /\ slept = <<>> /\ report = <<>>

RunnerNext ==
    \/ RunnerValidate
    \/ RunnerLoop
    \/ RunnerEnter
    \/ \E e \in {NoExc} \cup OperationalErrors \cup TimeoutErrors \cup {OtherError},
          leak \in BOOLEAN : RunnerMigrate(e, leak)
    \/ RunnerExit
    \/ RunnerIncrement
    \/ RunnerWait
    \/ \E raises \in BOOLEAN : RunnerCallback(raises)

Spec == RunnerInit /\ [][RunnerNext]_vars

(***************************************************************************)
(* MigrateRetryStrategy.wait called on a strategy built directly           *)
(***************************************************************************)
WaitCall ==
    /\ rpc = "wait_call"
    /\ slept' = slept \o WaitSleeps(opts, retries)
    /\ rpc' = "wait_returned"
    /\ UNCHANGED <<opsVars, connVars, opts, retries, rframe, rexc, attempts, trace, report>>

WaitInit ==
    /\ OpsIdle /\ ident = NoIdentifier
    /\ conn = NewConnection
    /\ ctx = <<>> /\ exc = NoExc /\ lastExit = NoExit /\ opened = 0
    /\ rpc = "wait_call"
    /\ opts \in WaitOptions
    /\ retries \in 0..MaxN
    /\ rframe = NoFrame /\ rexc = NoExc
    /\ attempts = 0 /\ trace = <<>> /\ slept = <<>> /\ report = <<>>

SpecWait == WaitInit /\ [][WaitCall]_vars

(***************************************************************************)
(* The backoff wait                                                        *)
(***************************************************************************)
Waited == rpc = "wait_returned" /\ slept # <<>>

Overflows == PowFloat(opts.exp, retries) = -1

\* C7 as stated: for all values of (exp, min_wait, max_wait, n) the wait
\* slept is within [min_wait, max_wait].
C7_WaitWithinBounds ==
    Waited => opts.min_wait <= slept[1] /\ slept[1] <= opts.max_wait

\* C7, amended: for all values of (exp, min_wait, max_wait, n) with
\* min_wait <= max_wait, wait() sleeps exactly once and for a time within
\* [min_wait, max_wait], also when exp ** n overflows; with
\* min_wait > max_wait it sleeps for at least min_wait.
C7_WaitWithinOrderedBounds ==
    rpc = "wait_returned" /\ CanMigrate(retries, opts.max_retries) =>
        /\ Len(slept) = 1
        /\ opts.min_wait <= slept[1]
        /\ opts.min_wait <= opts.max_wait => slept[1] <= opts.max_wait

C7_Witness ==
    /\ Waited /\ Overflows
    /\ opts.min_wait = 1000 /\ opts.max_wait = 20000 /\ slept = <<20000>>

\* C8 as stated: the wait is max(min_wait, min(exp ** n, max_wait)) seconds
\* and, if the exponentiation overflows, the wait is max_wait.
C8_OverflowWaitsMaxWait ==
    Waited =>
        /\ ~Overflows =>
              slept[1] = Max(opts.min_wait,
                             Min(PowFloat(opts.exp, retries) * 1000, opts.max_wait))
        /\ Overflows => slept[1] = opts.max_wait

\* C8, amended: the wait is max(min_wait, min(exp ** n, max_wait)) seconds,
\* the exponential not scaled by min_wait; if the exponentiation overflows
\* its result is taken to be max_wait, so the wait is
\* max(min_wait, max_wait): max_wait whenever min_wait <= max_wait.
\* exp=2, min_wait=1s, max_wait=20s, n=2 waits 4s; min_wait=40s waits 40s.
C8_WaitIsClampedPower ==
    Waited =>
        /\ ~Overflows =>
              slept[1] = Max(opts.min_wait,
                             Min(PowFloat(opts.exp, retries) * 1000, opts.max_wait))
        /\ Overflows => slept[1] = Max(opts.min_wait, opts.max_wait)
        /\ (opts.exp = 2 /\ retries = 2 /\ opts.max_wait = 20000) =>
              /\ opts.min_wait = 1000 => slept[1] = 4000
              /\ opts.min_wait = 40000 => slept[1] = 40000

C8_Witness ==
    /\ Waited /\ opts.exp = 2 /\ retries = 2
    /\ opts.min_wait = 1000 /\ opts.max_wait = 20000 /\ slept = <<4000>>

(***************************************************************************)
(* The runner's retry loop                                                 *)
(***************************************************************************)
\* The attempts that ended with a DBLockTimeoutError, as indices of trace
LockTimeoutAt == {i \in 1..Len(trace) : trace[i].ev = "lock_timeout"}

\* The runner is past the wait() that follows the lock timeout at index i
PastWait(i) == Len(trace) >= i + 2 \/ (Len(trace) = i + 1 /\ rpc # "wait")

Backoff(n) == WaitMs(opts.exp, opts.min_wait, opts.max_wait, n)

\* C4: with max_retries = k the wrapped migration is attempted at most k+1
\* times; MaximumRetriesReached is raised only after exactly k+1 attempts
\* that all ended with a lock timeout, and it cites k+1 lock timeouts and
\* the limit k; after k+1 lock timeouts the runner ends with that error
\* (or with the exception a callback raised), never with a success.
C4_RetryCeiling ==
    /\ attempts <= opts.max_retries + 1
    /\ (rpc = "raised" /\ rexc.cls = "MaximumRetriesReached") =>
          /\ attempts = opts.max_retries + 1
          /\ Cardinality(LockTimeoutAt) = attempts
          /\ report = <<opts.max_retries + 1, opts.max_retries>>
    /\ (Cardinality(LockTimeoutAt) = opts.max_retries + 1
            /\ rpc \in {"loop", "done", "raised"}) =>
          \/ rpc = "loop" /\ ~CanMigrate(retries, opts.max_retries)
          \/ rpc = "raised"
              /\ rexc.cls \in {"MaximumRetriesReached", "Exception"}

C4_Witness ==
    /\ rpc = "raised" /\ rexc.cls = "MaximumRetriesReached"
    /\ opts.max_retries = 2 /\ attempts = 3 /\ report = <<3, 2>>

\* C5 as stated: every attempt that ends with a lock timeout is followed by
\* the increment to n, then a sleep of backoff(n), then the callback.
C5_SleepAfterEveryLockTimeout ==
    \A i \in LockTimeoutAt :
        PastWait(i) =>
            /\ Len(trace) >= i + 2
            /\ trace[i + 1] = Event("increment", trace[i].n + 1)
            /\ trace[i + 2] = Event("sleep", Backoff(trace[i].n + 1))

\* C5, amended: every attempt that ends with a lock timeout is followed, in
\* this order, by the increment of the counter to n, a sleep of backoff(n)
\* if n <= max_retries (no sleep after the last permitted attempt), the
\* callback (if configured) with lock_timeouts_count n, and only then, if
\* n <= max_retries, the next attempt.
C5_RetryOrder ==
    \A i \in LockTimeoutAt :
        LET n == trace[i].n + 1
            k == opts.max_retries
            full == <<Event("increment", n)>>
                    \o (IF n <= k THEN <<Event("sleep", Backoff(n))>> ELSE <<>>)
                    \o (IF opts.callback THEN <<Event("callback", n)>> ELSE <<>>)
                    \o (IF n <= k THEN <<Event("attempt", n)>> ELSE <<>>)
            rest == SubSeq(trace, i + 1, Min(Len(trace), i + Len(full)))
        IN /\ rest = SubSeq(full, 1, Len(rest))
           /\ n > k => Len(trace) <= i + Len(full)
           /\ PastWait(i) /\ n <= k => Len(rest) >= 2
           /\ rpc \in {"loop", "enter", "migrate", "raised"} /\ opts.callback
                 => Len(rest) >= (IF n <= k THEN 3 ELSE 2)

C5_Witness ==
    /\ opts.callback /\ opts.max_retries = 1 /\ opts.exp = 2
    /\ rpc = "raised" /\ rexc.cls = "MaximumRetriesReached"
    /\ trace = <<Event("attempt", 0), Event("lock_timeout", 0),
                 Event("increment", 1), Event("sleep", Backoff(1)),
                 Event("callback", 1), Event("attempt", 1),
                 Event("lock_timeout", 1), Event("increment", 2),
                 Event("callback", 2)>>

\* C6: when an attempt raises a statement-timeout error, handle ends by
\* raising it: nothing follows the attempt (no increment, no sleep, no
\* callback, no further attempt) and the retry counter is unchanged.
C6_StatementTimeoutNotRetried ==
    lastExit.out = "DBStatementTimeoutError" =>
        /\ rpc = "raised"
        /\ rexc.cls = "DBStatementTimeoutError"
        /\ trace # <<>>
        /\ trace[Len(trace)] = Event("attempt", retries)
        /\ Len(slept) = Cardinality({i \in 1..Len(trace) : trace[i].ev = "sleep"})
        /\ Cardinality({i \in 1..Len(trace) : trace[i].ev = "sleep"}) = retries

C6_Witness ==
    /\ lastExit.out = "DBStatementTimeoutError"
    /\ rpc = "raised" /\ retries = 1 /\ opts.max_retries = 2 /\ attempts = 2

(***************************************************************************)
(* Nested `with` blocks on one connection: apply_timeouts scopes and       *)
(* transaction.atomic() blocks, the wrapped code raising and the exception *)
(* unwinding the blocks until a handler catches it                         *)
(***************************************************************************)
\* (lock_timeout, statement_timeout, close_transaction_leak) of the calls
ScopeArgs ==
    {<<-1, -1, FALSE>>, <<0, -1, FALSE>>, <<2000, 2000, FALSE>>,
     <<500, -1, FALSE>>, <<2000, -1, FALSE>>, <<500, 60000, FALSE>>,
     <<-1, 2000, TRUE>>, <<2000, 60000, TRUE>>}

AtomicFrame ==
    [kind |-> "atomic", level |-> "LOCAL", ctl |-> FALSE, prevLock |-> <<>>,
     prevStmt |-> <<>>, before |-> ServerDefaults]

Top(s) == s[Len(s)]
Pop(s) == SubSeq(s, 1, Len(s) - 1)

\* with apply_timeouts(...): the checks, then SHOW and SET
ScopeEnter(lt, st, ctl) ==
    /\ exc = NoExc
    /\ opened < MaxBlocks
    /\ opened' = opened + 1
    /\ IF ConfigError(conn, lt, st, ctl) # "none"
       THEN /\ exc' = [cls |-> ConfigError(conn, lt, st, ctl), msg |-> ""]
            /\ UNCHANGED <<conn, ctx>>
       ELSE IF conn.aborted
       THEN /\ exc' = InFailedTransaction
            /\ UNCHANGED <<conn, ctx>>
       ELSE /\ ctx' = Append(ctx, ScopeFrame(conn, lt, st, ctl))
            /\ conn' = ScopeEnterConn(conn, lt, st)
            /\ exc' = exc
    /\ UNCHANGED <<opsVars, lastExit, runVars>>

\* with transaction.atomic():
AtomicEnter ==
    /\ exc = NoExc
    /\ opened < MaxBlocks
    /\ opened' = opened + 1
    /\ ~conn.aborted
    /\ ctx' = Append(ctx, AtomicFrame)
    /\ conn' = Begin(conn)
    /\ UNCHANGED <<opsVars, exc, lastExit, runVars>>

\* the wrapped code of the innermost block returns
BlockReturn ==
    /\ exc = NoExc
    /\ ctx # <<>>
    /\ ctx' = Pop(ctx)
    /\ IF Top(ctx).kind = "atomic"
       THEN /\ conn' = IF conn.aborted THEN Rollback(conn) ELSE Commit(conn)
            /\ UNCHANGED <<exc, lastExit>>
       ELSE /\ conn' = ScopeExit(conn, Top(ctx), NoExc).conn
            /\ exc' = ScopeExit(conn, Top(ctx), NoExc).exc
            /\ lastExit' = ExitRecord(conn, Top(ctx), NoExc)
    /\ UNCHANGED <<opsVars, opened, runVars>>

\* the wrapped code of the innermost block raises e; a database error inside
\* a transaction aborts the transaction
BlockRaise(e) ==
    /\ exc = NoExc
    /\ ctx # <<>>
    /\ IsOperationalError(e) => ~conn.aborted
    /\ exc' = e
    /\ conn' = IF IsOperationalError(e) THEN FailStatement(conn) ELSE conn
    /\ UNCHANGED <<opsVars, ctx, lastExit, opened, runVars>>

\* the wrapped code of a SESSION scope opens a transaction, fails and never
\* closes it (a schema editor whose deferred SQL fails)
BlockLeak(e) ==
    /\ exc = NoExc
    /\ ctx # <<>>
    /\ Top(ctx).kind = "scope"
    /\ ~InAtomicBlock(conn)
    /\ exc' = e
    /\ conn' = IF IsOperationalError(e) THEN FailStatement(Begin(conn))
               ELSE Begin(conn)
    /\ UNCHANGED <<opsVars, ctx, lastExit, opened, runVars>>

\* the exception leaves the innermost block
Unwind ==
    /\ exc # NoExc
    /\ ctx # <<>>
    /\ ctx' = Pop(ctx)
    /\ IF Top(ctx).kind = "atomic"
       THEN /\ conn' = Rollback(conn)
            /\ UNCHANGED <<exc, lastExit>>
       ELSE /\ conn' = ScopeExit(conn, Top(ctx), exc).conn
            /\ exc' = ScopeExit(conn, Top(ctx), exc).exc
            /\ lastExit' = ExitRecord(conn, Top(ctx), exc)
    /\ UNCHANGED <<opsVars, opened, runVars>>

\* an except clause around the innermost block handles the exception
Catch ==
    /\ exc # NoExc
    /\ exc' = NoExc
    /\ UNCHANGED <<opsVars, conn, ctx, lastExit, opened, runVars>>

ScopesInit ==
    /\ OpsIdle /\ ident = NoIdentifier
    /\ conn \in InitialConnections
    /\ ctx = <<>> /\ exc = NoExc /\ lastExit = NoExit /\ opened = 0
    /\ rpc = "off" /\ opts = IdleOptions
    /\ retries = 0 /\ rframe = NoFrame /\ rexc = NoExc
    /\ attempts = 0 /\ trace = <<>> /\ slept = <<>> /\ report = <<>>

ScopesNext ==
    \/ \E a \in ScopeArgs : ScopeEnter(a[1], a[2], a[3])
    \/ AtomicEnter
    \/ BlockReturn
    \/ \E e \in OperationalErrors \cup {OtherError} : BlockRaise(e)
    \/ \E e \in OperationalErrors \cup {OtherError} : BlockLeak(e)
    \/ Unwind
    \/ Catch

SpecScopes == ScopesInit /\ [][ScopesNext]_vars

(***************************************************************************)
(* Restoring the timeouts                                                  *)
(***************************************************************************)
\* C9 as stated: when a scope exits, each timeout it overrode is back at the
\* value read immediately before the scope set it, in LOCAL and in SESSION
\* mode.
C9_OverriddenTimeoutsRestored ==
    lastExit.left =>
        /\ lastExit.setLock =>
              lastExit.after.lock_timeout = lastExit.before.lock_timeout
        /\ lastExit.setStmt =>
              lastExit.after.statement_timeout = lastExit.before.statement_timeout

\* C10 as stated: after a scope has been exited, lock_timeout and
\* statement_timeout are what they were before it was entered, whether the
\* wrapped code completed normally or raised.
C10_TimeoutsAsBeforeEntry ==
    lastExit.left => lastExit.after = lastExit.before

Restored(x) ==
    /\ x.setLock => x.after.lock_timeout = x.before.lock_timeout
    /\ x.setStmt => x.after.statement_timeout = x.before.statement_timeout

\* What does hold: a scope whose body returned restores what it overrode,
\* unless its transaction is aborted or a transaction leaked into it.
NormalExitRestores ==
    (lastExit.left /\ ~lastExit.raised /\ ~lastExit.leaked
        /\ lastExit.out = "none") => Restored(lastExit)

\* What does hold: a SESSION scope restores what it overrode on every exit
\* that finds no leaked transaction.
SessionExitRestores ==
    (lastExit.left /\ lastExit.level = "SESSION" /\ ~lastExit.leaked) =>
        Restored(lastExit)

(***************************************************************************)
(* Leaving a scope: the SESSION reset, the exception that leaves           *)
(***************************************************************************)
\* C11 as stated: in session scope every exit from apply_timeouts, by return
\* or by any exception of the wrapped code, resets each overridden timeout to
\* its previous value, so that no timeout set by the scope remains on the
\* connection.
C11_SessionExitAlwaysResets ==
    (lastExit.left /\ lastExit.level = "SESSION") => Restored(lastExit)

\* An exception is leaving the innermost block, which is a scope
ScopeUnwinds ==
    /\ exc # NoExc
    /\ ctx # <<>>
    /\ Top(ctx).kind = "scope"
    /\ ctx' = Pop(ctx)

\* The exit of the innermost scope finds a transaction it cannot close
LeakStops ==
    /\ Top(ctx).level = "SESSION"
    /\ InAtomicBlock(conn)
    /\ ~(Top(ctx).ctl /\ conn.aborted)

\* The translation of the claim: by the text of an OperationalError
Translated(e) ==
    CASE e.cls \in OperationalErrorClasses /\ e.msg = LockMsg ->
            [cls |-> "DBLockTimeoutError", msg |-> ""]
      [] e.cls \in OperationalErrorClasses /\ e.msg = StmtMsg ->
            [cls |-> "DBStatementTimeoutError", msg |-> ""]
      [] OTHER -> e

\* C12 as stated: an OperationalError raised inside apply_timeouts with the
\* lock-timeout text leaves the scope as DBLockTimeoutError, one with the
\* statement-timeout text as DBStatementTimeoutError, and every other error
\* leaves the scope unchanged.
C12_ErrorsTranslated ==
    [][ScopeUnwinds => exc' = Translated(exc)]_vars

\* C12, amended: the translation holds on every exit but the SESSION exit that
\* finds a leaked transaction it does not close; that exit raises
\* UnsupportedTimeoutBehaviour in place of whatever the wrapped code raised.
C12_ErrorsTranslatedUnlessLeak ==
    [][ScopeUnwinds =>
          IF LeakStops THEN exc'.cls = "UnsupportedTimeoutBehaviour"
          ELSE exc' = Translated(exc)]_vars

\* Both translations have happened: a scope left as DBLockTimeoutError whose
\* enclosing code now holds that exception
C12_Witness ==
    /\ lastExit.left /\ lastExit.raised
    /\ lastExit.out = "DBLockTimeoutError"
    /\ exc.cls = "DBLockTimeoutError"

(***************************************************************************)
(* Entering a scope: the configuration, the scope keyword                  *)
(***************************************************************************)
\* The rejection the claim names for a call; where several of its conditions
\* hold, the one listed first.
ClaimedRejection(c, lt, st, ctl) ==
    IF lt = -1 /\ st = -1 THEN "TimeoutNotProvided"
    ELSE IF \E t \in {lt, st} : t # -1 /\ t <= 0 THEN "TimeoutWasNotPositive"
    ELSE IF lt # -1 /\ st # -1 /\ lt >= st THEN "RedundantLockTimeout"
    ELSE IF ctl /\ InAtomicBlock(c) THEN "CloseTransactionLeakInsideTransaction"
    ELSE "none"

ConfigurationErrors ==
    {"TimeoutNotProvided", "TimeoutWasNotPositive", "RedundantLockTimeout",
     "CloseTransactionLeakInsideTransaction"}

\* C13: apply_timeouts rejects an invalid configuration with the error of the
\* first condition that holds (neither timeout given, a given timeout <= 0,
\* both given with lock_timeout >= statement_timeout, close_transaction_leak
\* inside a transaction), before any statement is sent (an aborted
\* transaction does not get to refuse one) and without changing a timeout;
\* a valid configuration raises none of these errors.
C13_InvalidConfigurationRejected ==
    [][\A a \in ScopeArgs :
          ScopeEnter(a[1], a[2], a[3]) =>
              LET err == ClaimedRejection(conn, a[1], a[2], a[3])
              IN IF err # "none"
                 THEN exc'.cls = err /\ conn' = conn /\ ctx' = ctx
                 ELSE exc'.cls \notin ConfigurationErrors]_vars

\* A call with close_transaction_leak was rejected inside a transaction, and
\* a redundant lock_timeout can be rejected next
C13_Witness ==
    /\ exc.cls = "CloseTransactionLeakInsideTransaction"
    /\ InAtomicBlock(conn)
    /\ ctx # <<>>

\* The scope of a call has been opened: its SHOW and SET were executed
ScopeOpens(lt, st, ctl) ==
    /\ ScopeEnter(lt, st, ctl)
    /\ Len(ctx') = Len(ctx) + 1

\* A scope is being left, by return or by exception
ScopeCloses ==
    /\ ctx # <<>>
    /\ Top(ctx).kind = "scope"
    /\ ctx' = Pop(ctx)

\* The timeouts given (not -1) have the values given, in the settings s
Given(s, lt, st) ==
    /\ lt # -1 => s.lock_timeout = lt
    /\ st # -1 => s.statement_timeout = st

\* C14: apply_timeouts sets the timeouts with SET LOCAL exactly when the
\* connection is inside an open transaction at entry and with SET SESSION
\* otherwise (LOCAL leaves the session's settings alone, SESSION changes
\* them), and the reset at exit uses the keyword of the entry: the exit of a
\* LOCAL scope never touches the session's settings, and a reset made by a
\* SESSION scope puts the previous values into the session's settings.
C14_ScopeKeywordByTransaction ==
    [][/\ \A a \in ScopeArgs :
            ScopeOpens(a[1], a[2], a[3]) =>
                /\ Given(conn'.eff, a[1], a[2])
                /\ IF InAtomicBlock(conn)
                   THEN conn'.sess = conn.sess /\ Top(ctx').level = "LOCAL"
                   ELSE Given(conn'.sess, a[1], a[2])
                        /\ Top(ctx').level = "SESSION"
       /\ ScopeCloses =>
            IF Top(ctx).level = "LOCAL"
            THEN conn'.sess = conn.sess
            ELSE lastExit'.out # "UnsupportedTimeoutBehaviour" =>
                    /\ lastExit'.setLock =>
                          conn'.sess.lock_timeout = Top(ctx).before.lock_timeout
                    /\ lastExit'.setStmt =>
                          conn'.sess.statement_timeout =
                              Top(ctx).before.statement_timeout]_vars

\* A LOCAL scope was left by return, its timeouts reset with SET LOCAL, inside
\* a transaction whose session settings differ from the settings in effect
C14_Witness ==
    /\ lastExit.left /\ lastExit.level = "LOCAL" /\ lastExit.out = "none"
    /\ lastExit.setLock
    /\ InAtomicBlock(conn)
    /\ ctx # <<>> /\ Top(ctx).kind = "scope" /\ Top(ctx).level = "LOCAL"
    /\ conn.eff # conn.sess

(***************************************************************************)
(* The leaked transaction                                                  *)
(***************************************************************************)
\* The exit of the innermost scope, a SESSION scope, finds the connection
\* inside a leaked aborted transaction
LeakedAbortedAtExit ==
    /\ ScopeCloses
    /\ Top(ctx).level = "SESSION"
    /\ InAtomicBlock(conn)
    /\ conn.aborted

\* The connection was closed and opened again
Reconnected == ~InAtomicBlock(conn') /\ ~conn'.aborted

\* C15 as stated: a session-scope exit that finds a leaked aborted transaction
\* raises UnsupportedTimeoutBehaviour with close_transaction_leak=false; with
\* close_transaction_leak=true it reconnects and the scope exits without
\* raising.
C15_LeakClosedWithoutRaising ==
    [][LeakedAbortedAtExit =>
          IF Top(ctx).ctl
          THEN Reconnected /\ exc' = NoExc
          ELSE exc'.cls = "UnsupportedTimeoutBehaviour"]_vars

\* C15, amended: with close_transaction_leak=true the exit reconnects and
\* raises nothing of its own: the scope returns if the wrapped code returned,
\* and is left by the (translated) exception of the wrapped code if that
\* raised; with close_transaction_leak=false the exit raises
\* UnsupportedTimeoutBehaviour and leaves the connection in the transaction.
C15_LeakClosedOrUnsupported ==
    [][LeakedAbortedAtExit =>
          IF Top(ctx).ctl
          THEN Reconnected /\ exc' = Translated(exc)
          ELSE exc'.cls = "UnsupportedTimeoutBehaviour" /\ conn' = conn]_vars

\* A scope with close_transaction_leak=true was left by return on a
\* reconnected connection after a transaction had leaked into it
C15_Witness ==
    /\ lastExit.left /\ lastExit.leaked /\ ~lastExit.raised
    /\ lastExit.out = "none"
    /\ ~InAtomicBlock(conn)

(***************************************************************************)
(* The safe operation managers (operations.py)                             *)
(*                                                                         *)
(* schema holds one index and the unique constraint that may own it        *)
(* (idx, uq), one column's NOT NULL flag and its helper check constraint   *)
(* (nn, chk), and one foreign-key column with its index and constraint     *)
(* (col, fkidx, fkcon).  A manager runs its introspection queries and then *)
(* issues its statements one by one; it can be interrupted between any two *)
(* of them.                                                                *)
(***************************************************************************)
\* The queries that only read the catalogue or the session
Introspection ==
    {"SHOW_LOCK_TIMEOUT", "CHECK_INVALID_INDEX", "CHECK_VALID_INDEX",
     "CHECK_EXISTING_CONSTRAINT", "CHECK_CONSTRAINT_IS_VALID",
     "IS_COLUMN_NOT_NULL", "CHECK_COLUMN_EXISTS"}

\* The index a manager works on: the foreign key's or the model's
IndexOf(o) == IF o.kind \in {"add_fk_field", "drop_fk_field"} THEN "fkidx" ELSE "idx"

\* A safer_create_index that forgets to put lock_timeout back
SaferCreateIndexUnrestored ==
    <<"SHOW_LOCK_TIMEOUT", "SET_LOCK_TIMEOUT_ZERO", "CHECK_INVALID_INDEX",
      "CREATE_INDEX">>

\* A safer_create_index that looks for the invalid index first
SaferCreateIndexCheckFirst ==
    <<"CHECK_INVALID_INDEX", "SHOW_LOCK_TIMEOUT", "SET_LOCK_TIMEOUT_ZERO",
      "CREATE_INDEX", "SET_LOCK_TIMEOUT_ORIGINAL">>

\* safer_create_index, after its two guards, up to the invalid-index check
SaferCreateIndex ==
    <<"SHOW_LOCK_TIMEOUT", "SET_LOCK_TIMEOUT_ZERO", "CHECK_INVALID_INDEX",
      "CREATE_INDEX", "SET_LOCK_TIMEOUT_ORIGINAL">>

\* A safer_drop_index that forgets to put lock_timeout back
SaferDropIndexUnrestored ==
    <<"SHOW_LOCK_TIMEOUT", "SET_LOCK_TIMEOUT_ZERO", "DROP_INDEX">>

\* safer_drop_index, after its two guards
SaferDropIndex ==
    <<"SHOW_LOCK_TIMEOUT", "SET_LOCK_TIMEOUT_ZERO", "DROP_INDEX",
      "SET_LOCK_TIMEOUT_ORIGINAL">>

\* What a manager does first: the queries it runs, the statements it then
\* issues (plan), or the exception it raises instead
Program(queries, statements) ==
    [queries |-> queries, plan |-> statements, exc |-> "none"]

Raise(queries, cls) == [queries |-> queries, plan |-> <<>>, exc |-> cls]

\* A create_constraint that never looks for the constraint
CreateConstraintUnchecked(s, o) ==
    IF o.condition THEN Program(<<>>, SaferCreateIndex)
    ELSE Program(<<>>, SaferCreateIndex \o <<"ADD_UNIQUE_USING_INDEX">>)

\* A create_constraint that adds the table constraint whatever the condition
CreateConstraintAlwaysAdds(s, o) ==
    IF o.raise_if_exists /\ s.uq
    THEN Raise(<<"CHECK_EXISTING_CONSTRAINT">>, "ConstraintAlreadyExists")
    ELSE IF s.uq THEN Program(<<"CHECK_EXISTING_CONSTRAINT">>, <<>>)
         ELSE Program(<<"CHECK_EXISTING_CONSTRAINT">>,
                      SaferCreateIndex \o <<"ADD_UNIQUE_USING_INDEX">>)

\* A create_constraint that raises whenever it finds the constraint
CreateConstraintRaisesAlways(s, o) ==
    IF o.condition THEN Program(<<>>, SaferCreateIndex)
    ELSE IF s.uq
         THEN Raise(<<"CHECK_EXISTING_CONSTRAINT">>, "ConstraintAlreadyExists")
         ELSE Program(<<"CHECK_EXISTING_CONSTRAINT">>,
                      SaferCreateIndex \o <<"ADD_UNIQUE_USING_INDEX">>)

\* SafeConstraintOperationManager.create_constraint
CreateConstraint(s, o) ==
    IF o.condition THEN Program(<<>>, SaferCreateIndex)
    ELSE IF o.raise_if_exists /\ s.uq
         THEN Raise(<<"CHECK_EXISTING_CONSTRAINT">>, "ConstraintAlreadyExists")
         ELSE IF s.uq THEN Program(<<"CHECK_EXISTING_CONSTRAINT">>, <<>>)
              ELSE Program(<<"CHECK_EXISTING_CONSTRAINT">>,
                           SaferCreateIndex \o <<"ADD_UNIQUE_USING_INDEX">>)

\* A drop_constraint that drops without looking for the constraint
DropConstraintBlind(s, o) ==
    IF o.condition THEN Program(<<>>, SaferDropIndex)
    ELSE Program(<<>>, <<"DROP_UNIQUE_CONSTRAINT">>)

\* SafeConstraintOperationManager.drop_constraint
DropConstraint(s, o) ==
    IF o.condition THEN Program(<<>>, SaferDropIndex)
    ELSE IF ~s.uq THEN Program(<<"CHECK_EXISTING_CONSTRAINT">>, <<>>)
         ELSE Program(<<"CHECK_EXISTING_CONSTRAINT">>, <<"DROP_UNIQUE_CONSTRAINT">>)

\* A set_not_null that takes every helper constraint it finds for valid
SetNotNullTrusting(s) ==
    LET both == <<"IS_COLUMN_NOT_NULL", "CHECK_EXISTING_CONSTRAINT">>
    IN IF s.nn /\ s.chk = "absent" THEN Program(both, <<>>)
       ELSE IF s.chk = "absent"
            THEN Program(both, <<"ADD_NOT_VALID_CHECK", "VALIDATE_CHECK",
                                 "SET_NOT_NULL", "DROP_CHECK">>)
            ELSE Program(Append(both, "CHECK_CONSTRAINT_IS_VALID"),
                         (IF ~s.nn THEN <<"SET_NOT_NULL">> ELSE <<>>)
                         \o <<"DROP_CHECK">>)

\* A set_not_null that sets NOT NULL over a constraint it never validated
SetNotNullUnvalidated(s) ==
    LET both == <<"IS_COLUMN_NOT_NULL", "CHECK_EXISTING_CONSTRAINT">>
    IN IF s.nn /\ s.chk = "absent" THEN Program(both, <<>>)
       ELSE IF s.chk = "absent"
            THEN Program(both, <<"ADD_NOT_VALID_CHECK", "SET_NOT_NULL",
                                 "DROP_CHECK">>)
            ELSE IF s.chk = "valid"
                 THEN Program(Append(both, "CHECK_CONSTRAINT_IS_VALID"),
                              (IF ~s.nn THEN <<"SET_NOT_NULL">> ELSE <<>>)
                              \o <<"DROP_CHECK">>)
                 ELSE Program(Append(both, "CHECK_CONSTRAINT_IS_VALID"),
                              <<"VALIDATE_CHECK", "SET_NOT_NULL", "DROP_CHECK">>)

\* A set_not_null that returns as soon as it finds the column NOT NULL
SetNotNullShortCircuit(s) ==
    LET both == <<"IS_COLUMN_NOT_NULL", "CHECK_EXISTING_CONSTRAINT">>
    IN IF s.nn THEN Program(<<"IS_COLUMN_NOT_NULL">>, <<>>)
       ELSE IF s.chk = "absent"
            THEN Program(both, <<"ADD_NOT_VALID_CHECK", "VALIDATE_CHECK",
                                 "SET_NOT_NULL", "DROP_CHECK">>)
            ELSE IF s.chk = "valid"
                 THEN Program(Append(both, "CHECK_CONSTRAINT_IS_VALID"),
                              <<"SET_NOT_NULL", "DROP_CHECK">>)
                 ELSE Program(Append(both, "CHECK_CONSTRAINT_IS_VALID"),
                              <<"VALIDATE_CHECK", "SET_NOT_NULL", "DROP_CHECK">>)

\* A set_not_null that validates the helper constraint after SET NOT NULL
SetNotNullBeforeValidate(s) ==
    LET both == <<"IS_COLUMN_NOT_NULL", "CHECK_EXISTING_CONSTRAINT">>
    IN IF s.nn /\ s.chk = "absent" THEN Program(both, <<>>)
       ELSE IF s.chk = "absent"
            THEN Program(both, <<"ADD_NOT_VALID_CHECK", "SET_NOT_NULL",
                                 "VALIDATE_CHECK", "DROP_CHECK">>)
            ELSE IF s.chk = "valid"
                 THEN Program(Append(both, "CHECK_CONSTRAINT_IS_VALID"),
                              (IF ~s.nn THEN <<"SET_NOT_NULL">> ELSE <<>>)
                              \o <<"DROP_CHECK">>)
                 ELSE Program(Append(both, "CHECK_CONSTRAINT_IS_VALID"),
                              <<"SET_NOT_NULL", "VALIDATE_CHECK", "DROP_CHECK">>)

\* NullsManager.set_not_null
SetNotNull(s) ==
    LET is_not_null == s.nn
        constraint_exists == s.chk # "absent"
        both == <<"IS_COLUMN_NOT_NULL", "CHECK_EXISTING_CONSTRAINT">>
    IN IF is_not_null /\ ~constraint_exists THEN Program(both, <<>>)
       ELSE IF ~constraint_exists
            THEN Program(both, <<"ADD_NOT_VALID_CHECK", "VALIDATE_CHECK",
                                 "SET_NOT_NULL", "DROP_CHECK">>)
            ELSE IF s.chk = "valid"
                 THEN Program(Append(both, "CHECK_CONSTRAINT_IS_VALID"),
                              (IF ~is_not_null THEN <<"SET_NOT_NULL">> ELSE <<>>)
                              \o <<"DROP_CHECK">>)
                 ELSE Program(Append(both, "CHECK_CONSTRAINT_IS_VALID"),
                              <<"VALIDATE_CHECK", "SET_NOT_NULL", "DROP_CHECK">>)

\* NullsManager.set_null
SetNull(s) ==
    IF ~s.nn THEN Program(<<"IS_COLUMN_NOT_NULL">>, <<>>)
    ELSE Program(<<"IS_COLUMN_NOT_NULL">>, <<"DROP_NOT_NULL">>)

\* A _maybe_create_index that builds the index whatever db_index says
MaybeCreateIndexAlways(o) == SaferCreateIndex

\* ForeignKeyManager._maybe_create_index
MaybeCreateIndex(o) == IF o.db_index THEN SaferCreateIndex ELSE <<>>

\* the queries add_fk_field has run when it reaches its n-th test
FkQueries(o, n) ==
    <<"CHECK_COLUMN_EXISTS">>
    \o (IF n >= 2 /\ o.db_index THEN <<"CHECK_VALID_INDEX">> ELSE <<>>)
    \o (IF n >= 3 THEN <<"CHECK_EXISTING_CONSTRAINT">> ELSE <<>>)
    \o (IF n >= 4 THEN <<"CHECK_CONSTRAINT_IS_VALID">> ELSE <<>>)

\* An add_fk_field that takes an invalid index for the index it needs
AddFkFieldAnyIndex(s, o) ==
    IF ~s.col
    THEN Program(FkQueries(o, 1),
                 <<"ADD_NULL_COLUMN">> \o MaybeCreateIndex(o)
                 \o <<"ADD_NOT_VALID_FK", "VALIDATE_FK">>)
    ELSE IF o.db_index /\ s.fkidx = "absent"
         THEN Program(FkQueries(o, 2),
                      MaybeCreateIndex(o) \o <<"ADD_NOT_VALID_FK", "VALIDATE_FK">>)
         ELSE IF s.fkcon = "absent"
              THEN Program(FkQueries(o, 3), <<"ADD_NOT_VALID_FK", "VALIDATE_FK">>)
              ELSE IF s.fkcon # "valid"
                   THEN Program(FkQueries(o, 4), <<"VALIDATE_FK">>)
                   ELSE Program(FkQueries(o, 4), <<>>)

\* ForeignKeyManager.add_fk_field
AddFkField(s, o) ==
    IF ~s.col
    THEN Program(FkQueries(o, 1),
                 <<"ADD_NULL_COLUMN">> \o MaybeCreateIndex(o)
                 \o <<"ADD_NOT_VALID_FK", "VALIDATE_FK">>)
    ELSE IF o.db_index /\ s.fkidx # "valid"
         THEN Program(FkQueries(o, 2),
                      MaybeCreateIndex(o) \o <<"ADD_NOT_VALID_FK", "VALIDATE_FK">>)
         ELSE IF s.fkcon = "absent"
              THEN Program(FkQueries(o, 3), <<"ADD_NOT_VALID_FK", "VALIDATE_FK">>)
              ELSE IF s.fkcon # "valid"
                   THEN Program(FkQueries(o, 4), <<"VALIDATE_FK">>)
                   ELSE Program(FkQueries(o, 4), <<>>)

\* ForeignKeyManager.drop_fk_field
DropFkField(s) ==
    IF ~s.col THEN Program(<<"CHECK_COLUMN_EXISTS">>, <<>>)
    ELSE Program(<<"CHECK_COLUMN_EXISTS">>, <<"DROP_COLUMN">>)

\* The body of each manager, after the guards that all of them share
Body(s, o) ==
    CASE o.kind = "create_index" -> Program(<<>>, SaferCreateIndex)
      [] o.kind = "drop_index" -> Program(<<>>, SaferDropIndex)
      [] o.kind = "create_constraint" -> CreateConstraint(s, o)
      [] o.kind = "drop_constraint" -> DropConstraint(s, o)
      [] o.kind = "set_not_null" -> SetNotNull(s)
      [] o.kind = "set_null" -> SetNull(s)
      [] o.kind = "add_fk_field" -> AddFkField(s, o)
      [] o.kind = "drop_fk_field" -> DropFkField(s)

\* A manager that asks the router before it looks at the transaction
ManagerRouterFirst(c, s, o) ==
    IF o.kind \in {"add_fk_field", "drop_fk_field"} /\ ~o.null
    THEN Raise(<<>>, "ValueError")
    ELSE IF ~o.allow THEN Program(<<>>, <<>>)
         ELSE IF InAtomicBlock(c) THEN Raise(<<>>, "NotSupportedError")
              ELSE Body(s, o)

\* A manager that asks the router only after its introspection queries
ManagerRouterLate(c, s, o) ==
    IF o.kind \in {"add_fk_field", "drop_fk_field"} /\ ~o.null
    THEN Raise(<<>>, "ValueError")
    ELSE IF InAtomicBlock(c) THEN Raise(<<>>, "NotSupportedError")
         ELSE IF ~o.allow THEN Program(Body(s, o).queries, <<>>)
              ELSE Body(s, o)

\* A manager that looks at the field's null only after its queries
ManagerNullCheckLate(c, s, o) ==
    IF InAtomicBlock(c) THEN Raise(<<>>, "NotSupportedError")
    ELSE IF ~o.allow THEN Program(<<>>, <<>>)
         ELSE IF o.kind \in {"add_fk_field", "drop_fk_field"} /\ ~o.null
              THEN Raise(Body(s, o).queries, "ValueError")
              ELSE Body(s, o)

\* A manager from its first line: ForeignKeyManager.__init__ refuses a field
\* with null=False, _ensure_not_in_transaction refuses an atomic migration,
\* allow_migrate_model False returns at once
Manager(c, s, o) ==
    IF o.kind \in {"add_fk_field", "drop_fk_field"} /\ ~o.null
    THEN Raise(<<>>, "ValueError")
    ELSE IF InAtomicBlock(c) THEN Raise(<<>>, "NotSupportedError")
         ELSE IF ~o.allow THEN Program(<<>>, <<>>)
              ELSE Body(s, o)

\* Statements that PostgreSQL rejects in the schema s
Rejected(label, s, o) ==
    CASE label = "DROP_INDEX" -> IndexOf(o) = "idx" /\ s.uq
      [] label = "ADD_UNIQUE_USING_INDEX" -> s.uq \/ s.idx # "valid"
      [] label = "DROP_UNIQUE_CONSTRAINT" -> ~s.uq
      [] label = "ADD_NOT_VALID_CHECK" -> s.chk # "absent"
      [] label = "VALIDATE_CHECK" -> s.chk = "absent"
      [] label = "DROP_CHECK" -> s.chk = "absent"
      [] label = "ADD_NOT_VALID_FK" -> ~s.col \/ s.fkcon # "absent"
      [] label = "VALIDATE_FK" -> s.fkcon = "absent"
      [] label = "DROP_COLUMN" -> ~s.col
      [] OTHER -> FALSE

\* The schema after PostgreSQL has executed a statement it accepts
Effect(label, s, o) ==
    CASE label = "DROP_INDEX" -> [s EXCEPT ![IndexOf(o)] = "absent"]
      [] label = "ADD_UNIQUE_USING_INDEX" -> [s EXCEPT !.uq = TRUE]
      [] label = "DROP_UNIQUE_CONSTRAINT" ->
            [s EXCEPT !.uq = FALSE, !.idx = "absent"]
      [] label = "ADD_NOT_VALID_CHECK" -> [s EXCEPT !.chk = "notvalid"]
      [] label = "VALIDATE_CHECK" -> [s EXCEPT !.chk = "valid"]
      [] label = "SET_NOT_NULL" -> [s EXCEPT !.nn = TRUE]
      [] label = "DROP_CHECK" -> [s EXCEPT !.chk = "absent"]
      [] label = "DROP_NOT_NULL" -> [s EXCEPT !.nn = FALSE]
      [] label = "ADD_NULL_COLUMN" -> [s EXCEPT !.col = TRUE]
      [] label = "ADD_NOT_VALID_FK" -> [s EXCEPT !.fkcon = "notvalid"]
      [] label = "VALIDATE_FK" -> [s EXCEPT !.fkcon = "valid"]
      [] label = "DROP_COLUMN" ->
            [s EXCEPT !.col = FALSE, !.fkidx = "absent", !.fkcon = "absent"]

Statements ==
    {"DROP_INDEX", "ADD_UNIQUE_USING_INDEX", "DROP_UNIQUE_CONSTRAINT",
     "ADD_NOT_VALID_CHECK", "VALIDATE_CHECK", "SET_NOT_NULL", "DROP_CHECK",
     "DROP_NOT_NULL", "ADD_NULL_COLUMN", "ADD_NOT_VALID_FK", "VALIDATE_FK",
     "DROP_COLUMN"}

\* How an invocation that is over ended
Outcome ==
    IF pc = "idle" THEN "none"
    ELSE IF pc = "returned" THEN "returned"
         ELSE IF oexc = "Interrupted" THEN "interrupted" ELSE "raised"

\* The migration executor runs the operation
OpInvoke ==
    /\ pc \in {"idle", "returned", "raised"}
    /\ invoked < MaxInvocations
    /\ LET m == Manager(conn, schema, op)
       IN /\ stmts' = m.queries
          /\ plan' = m.plan
          /\ oexc' = m.exc
          /\ pc' = IF m.exc # "none" THEN "raised"
                   ELSE IF m.plan = <<>> THEN "returned" ELSE "running"
    /\ start' = schema
    /\ prior' = Outcome
    /\ invoked' = invoked + 1
    /\ orig' = <<0, "">>
    /\ collected' = <<>>
    /\ UNCHANGED <<schema, op, ident, origin, connVars, runVars>>

\* The running manager has issued the statement at the head of its plan
Issued(rest) ==
    /\ stmts' = Append(stmts, Head(plan))
    /\ plan' = rest
    /\ pc' = IF rest = <<>> THEN "returned" ELSE "running"
    /\ UNCHANGED <<op, ident, collected, start, origin, prior, invoked, oexc, ctx, exc,
                   lastExit, opened, runVars>>

\* The statement at the head of the plan failed
Failed(cls) ==
    /\ stmts' = Append(stmts, Head(plan))
    /\ plan' = <<>>
    /\ pc' = "raised"
    /\ oexc' = cls
    /\ UNCHANGED <<op, ident, collected, start, origin, prior, invoked, orig, ctx, exc,
                   lastExit, opened, runVars>>

Next1(label) == pc = "running" /\ plan # <<>> /\ Head(plan) = label

\* The statements that go through schema_editor.execute (the others are
\* executed on a cursor of the connection): CREATE INDEX, the DROP INDEX of
\* safer_drop_index (not the one of _ensure_not_an_invalid_index), ADD
\* CONSTRAINT ... UNIQUE USING INDEX, schema_editor.remove_constraint
ViaSchemaEditor(label, o) ==
    \/ label \in {"CREATE_INDEX", "ADD_UNIQUE_USING_INDEX",
                  "DROP_UNIQUE_CONSTRAINT"}
    \/ label = "DROP_INDEX" /\ o.kind \in {"drop_index", "drop_constraint"}

\* BaseDatabaseSchemaEditor.execute with collect_sql=True appends the
\* statement to collected_sql and does not execute it
Collects(label, o) == o.collect /\ ViaSchemaEditor(label, o)

\* schema_editor.execute(sql) of a collecting schema editor
OpCollect ==
    /\ pc = "running" /\ plan # <<>>
    /\ Collects(Head(plan), op)
    /\ collected' = Append(collected, Head(plan))
    /\ plan' = Tail(plan)
    /\ pc' = IF Tail(plan) = <<>> THEN "returned" ELSE "running"
    /\ UNCHANGED <<schema, op, ident, oexc, orig, stmts, start, origin, prior, invoked,
                   connVars, runVars>>

\* _show_lock_timeout
OpShowLockTimeout ==
    /\ Next1("SHOW_LOCK_TIMEOUT")
    /\ orig' = ShowGuc(conn.eff.lock_timeout)
    /\ Issued(Tail(plan))
    /\ UNCHANGED <<schema, conn>>

\* _set_lock_timeout(schema_editor, "0")
OpSetLockTimeoutZero ==
    /\ Next1("SET_LOCK_TIMEOUT_ZERO")
    /\ conn' = SetSession(conn, "lock_timeout", ParseGuc(<<0, "">>))
    /\ Issued(Tail(plan))
    /\ UNCHANGED <<schema, orig>>

\* An _ensure_not_an_invalid_index that leaves the invalid index where it is
OpCheckInvalidIndexNoDrop ==
    /\ Next1("CHECK_INVALID_INDEX")
    /\ Issued(Tail(plan))
    /\ UNCHANGED <<schema, conn, orig>>

\* _ensure_not_an_invalid_index: the check, then the drop if it found one
OpCheckInvalidIndex ==
    /\ Next1("CHECK_INVALID_INDEX")
    /\ Issued(IF schema[IndexOf(op)] = "invalid"
              THEN <<"DROP_INDEX">> \o Tail(plan) ELSE Tail(plan))
    /\ UNCHANGED <<schema, conn, orig>>

\* CREATE [UNIQUE] INDEX CONCURRENTLY IF NOT EXISTS: a build that fails
\* leaves an invalid index behind
OpCreateIndex(fails) ==
    /\ Next1("CREATE_INDEX")
    /\ ~Collects("CREATE_INDEX", op)
    /\ fails => schema[IndexOf(op)] = "absent"
    /\ schema' = IF schema[IndexOf(op)] # "absent" THEN schema
                 ELSE [schema EXCEPT ![IndexOf(op)] =
                          IF fails THEN "invalid" ELSE "valid"]
    /\ IF fails THEN Failed("OperationalError")
       ELSE Issued(Tail(plan)) /\ UNCHANGED orig
    /\ UNCHANGED conn

\* A _set_lock_timeout whose SET of the original value has no effect
OpSetLockTimeoutOriginalLost ==
    /\ Next1("SET_LOCK_TIMEOUT_ORIGINAL")
    /\ Issued(Tail(plan))
    /\ UNCHANGED <<schema, orig, conn>>

\* _set_lock_timeout(schema_editor, original_lock_timeout)
OpSetLockTimeoutOriginal ==
    /\ Next1("SET_LOCK_TIMEOUT_ORIGINAL")
    /\ conn' = SetSession(conn, "lock_timeout", ParseGuc(orig))
    /\ Issued(Tail(plan))
    /\ UNCHANGED <<schema, orig>>

\* Every other statement of a manager
OpExecute ==
    /\ pc = "running" /\ plan # <<>> /\ Head(plan) \in Statements
    /\ ~Collects(Head(plan), op)
    /\ IF Rejected(Head(plan), schema, op)
       THEN Failed("ProgrammingError") /\ UNCHANGED schema
       ELSE /\ schema' = Effect(Head(plan), schema, op)
            /\ Issued(Tail(plan))
            /\ UNCHANGED orig
    /\ UNCHANGED conn

\* The run is cut short between two statements: the next statement failed
\* without effect (the session lives on), or the process died (the next
\* invocation has a new session)
OpInterrupt(died) ==
    /\ pc = "running"
    /\ pc' = "raised"
    /\ oexc' = "Interrupted"
    /\ plan' = <<>>
    /\ conn' = IF died THEN Reconnect(conn) ELSE conn
    /\ UNCHANGED <<schema, op, ident, orig, stmts, collected, start, origin, prior,
                   invoked, ctx, exc, lastExit, opened, runVars>>

\* The operations of a migration and the schemas they may find
Operations ==
    {[kind |-> k, condition |-> FALSE, raise_if_exists |-> FALSE,
      db_index |-> FALSE, null |-> TRUE, allow |-> a, collect |-> cs] :
        k \in {"create_index", "drop_index", "set_not_null", "set_null"},
        a \in BOOLEAN, cs \in BOOLEAN}
    \cup {[kind |-> "create_constraint", condition |-> c, raise_if_exists |-> r,
           db_index |-> FALSE, null |-> TRUE, allow |-> a, collect |-> cs] :
             c \in BOOLEAN, r \in BOOLEAN, a \in BOOLEAN, cs \in BOOLEAN}
    \cup {[kind |-> "drop_constraint", condition |-> c, raise_if_exists |-> FALSE,
           db_index |-> FALSE, null |-> TRUE, allow |-> a, collect |-> cs] :
             c \in BOOLEAN, a \in BOOLEAN, cs \in BOOLEAN}
    \cup {[kind |-> k, condition |-> FALSE, raise_if_exists |-> FALSE,
           db_index |-> d, null |-> n, allow |-> a, collect |-> cs] :
             k \in {"add_fk_field", "drop_fk_field"},
             d \in BOOLEAN, n \in BOOLEAN, a \in BOOLEAN, cs \in BOOLEAN}

States3 == {"absent", "invalid", "valid"}

Validity == {"absent", "notvalid", "valid"}

\* A unique constraint owns a valid index; a conditional one is an index only,
\* but the name it is given may be that of a constraint the table already has
StartSchemas(o) ==
    CASE o.kind \in {"create_index", "drop_index"} ->
            {[DefaultSchema EXCEPT !.idx = i] : i \in States3}
      [] o.kind \in {"create_constraint", "drop_constraint"} ->
            {[DefaultSchema EXCEPT !.idx = i] : i \in States3}
            \cup {[DefaultSchema EXCEPT !.idx = "valid", !.uq = TRUE]}
      [] o.kind \in {"set_not_null", "set_null"} ->
            {[DefaultSchema EXCEPT !.nn = n, !.chk = c] :
                n \in BOOLEAN, c \in Validity}
      [] o.kind \in {"add_fk_field", "drop_fk_field"} ->
            {DefaultSchema}
            \cup {[DefaultSchema EXCEPT !.col = TRUE, !.fkidx = i, !.fkcon = c] :
                    i \in States3, c \in Validity}

\* A migration runs outside a transaction unless it is atomic
OpsConnections == InitialConnections \cup {Begin(c) : c \in InitialConnections}

OpsInit ==
    /\ conn \in OpsConnections
    /\ ctx = <<>> /\ exc = NoExc /\ lastExit = NoExit /\ opened = 0
    /\ rpc = "off" /\ opts = IdleOptions
    /\ retries = 0 /\ rframe = NoFrame /\ rexc = NoExc
    /\ attempts = 0 /\ trace = <<>> /\ slept = <<>> /\ report = <<>>
    /\ op \in Operations
    /\ schema \in StartSchemas(op)
    /\ origin = schema /\ start = schema
    /\ pc = "idle" /\ plan = <<>> /\ oexc = "none" /\ orig = <<0, "">>
    /\ stmts = <<>> /\ collected = <<>> /\ prior = "none" /\ invoked = 0
    /\ ident = NoIdentifier

OpsNext ==
    \/ OpInvoke
    \/ OpShowLockTimeout
    \/ OpSetLockTimeoutZero
    \/ OpCheckInvalidIndex
    \/ \E fails \in BOOLEAN : OpCreateIndex(fails)
    \/ OpSetLockTimeoutOriginal
    \/ OpExecute
    \/ OpCollect
    \/ \E died \in BOOLEAN : OpInterrupt(died)

SpecOps == OpsInit /\ [][OpsNext]_vars

(***************************************************************************)
(* Idempotence and reentrancy of the managers                              *)
(***************************************************************************)
IsIntrospection(x) == x \in Introspection

\* The statements of a sequence that are not introspection queries
Mutating(seq) == SelectSeq(seq, LAMBDA x : ~IsIntrospection(x))

\* An invocation ran to its end: it returned, or raised of its own accord
Completed == pc = "returned" \/ (pc = "raised" /\ oexc # "Interrupted")

\* The invocation that just completed directly follows one that returned,
\* both executing their statements (no collecting schema editor)
SecondInARow == Completed /\ prior = "returned" /\ ~op.collect

\* The managers that go through safer_create_index / safer_drop_index only
ReissuesIndexDdl(o) ==
    \/ o.kind \in {"create_index", "drop_index"}
    \/ o.kind \in {"create_constraint", "drop_constraint"} /\ o.condition

\* C1 as stated: the second of two invocations in a row leaves the schema as
\* the first left it and issues only introspection queries.
C1_SecondInvocationOnlyIntrospects ==
    SecondInARow =>
        /\ schema = start
        /\ \A i \in 1..Len(stmts) : stmts[i] \in Introspection

\* C1, amended: the second of two invocations in a row leaves the schema as
\* the first left it.  Unique-constraint create/drop without a condition,
\* NOT NULL enable/disable and foreign-key add/remove then issue only
\* introspection queries (create with raise_if_exists raises
\* ConstraintAlreadyExists after its one query).  Index create/drop, and
\* unique-constraint create/drop with a condition, issue their statements
\* again: SET lock_timeout 0, the IF [NOT] EXISTS statement, SET lock_timeout
\* back; these change nothing and lock_timeout ends as it began.
C1_SecondInvocationChangesNothing ==
    SecondInARow =>
        /\ schema = start
        /\ (op.allow /\ ReissuesIndexDdl(op)) =>
              /\ pc = "returned"
              /\ Mutating(stmts) =
                    <<"SET_LOCK_TIMEOUT_ZERO",
                      IF op.kind \in {"create_index", "create_constraint"}
                      THEN "CREATE_INDEX" ELSE "DROP_INDEX",
                      "SET_LOCK_TIMEOUT_ORIGINAL">>
              /\ conn.eff.lock_timeout = ParseGuc(orig)
        /\ ~(op.allow /\ ReissuesIndexDdl(op)) =>
              /\ \A i \in 1..Len(stmts) : stmts[i] \in Introspection
              /\ pc = "raised" =>
                    /\ oexc = "ConstraintAlreadyExists"
                    /\ op.kind = "create_constraint" /\ op.raise_if_exists
                    /\ stmts = <<"CHECK_EXISTING_CONSTRAINT">>

C1_Witness ==
    /\ SecondInARow /\ op.kind = "add_fk_field" /\ op.db_index
    /\ origin = DefaultSchema /\ schema.fkcon = "valid"
    /\ stmts = <<"CHECK_COLUMN_EXISTS", "CHECK_VALID_INDEX",
                 "CHECK_EXISTING_CONSTRAINT", "CHECK_CONSTRAINT_IS_VALID">>

\* The steps of set_not_null that a schema still lacks
RemainingNotNullSteps(s) ==
    CASE s.chk = "absent" ->
            IF s.nn THEN <<>>
            ELSE <<"ADD_NOT_VALID_CHECK", "VALIDATE_CHECK", "SET_NOT_NULL",
                   "DROP_CHECK">>
      [] s.chk = "valid" ->
            (IF s.nn THEN <<>> ELSE <<"SET_NOT_NULL">>) \o <<"DROP_CHECK">>
      [] s.chk = "notvalid" -> <<"VALIDATE_CHECK", "SET_NOT_NULL", "DROP_CHECK">>

\* The schemas an interrupted set_not_null leaves behind when it began on a
\* nullable column without helper constraint: after 0, 1, 2, 3, 4 steps
InterruptedNotNull ==
    {[DefaultSchema EXCEPT !.nn = n, !.chk = c] :
        <<n, c>> \in {<<FALSE, "absent">>, <<FALSE, "notvalid">>,
                      <<FALSE, "valid">>, <<TRUE, "valid">>, <<TRUE, "absent">>}}

\* C2: set_not_null is reentrant.  Whatever schema an invocation starts from,
\* and in particular the schema an interrupted run left behind, when it
\* returns the column is NOT NULL, the helper constraint is gone, and it has
\* issued exactly the mutating steps that were still missing; none of its
\* statements is rejected, so an invocation that is not interrupted returns.
C2_SetNotNullReentrant ==
    op.kind = "set_not_null" =>
        /\ (pc = "returned" /\ op.allow) =>
              /\ schema.nn /\ schema.chk = "absent"
              /\ Mutating(stmts) = RemainingNotNullSteps(start)
        /\ Completed => pc = "returned" \/ oexc = "NotSupportedError"
        /\ (origin = DefaultSchema /\ op.allow) => schema \in InterruptedNotNull

C2_Witness ==
    /\ op.kind = "set_not_null" /\ pc = "returned" /\ prior = "interrupted"
    /\ origin = DefaultSchema
    /\ start = [DefaultSchema EXCEPT !.chk = "notvalid"]
    /\ Mutating(stmts) = <<"VALIDATE_CHECK", "SET_NOT_NULL", "DROP_CHECK">>
    /\ schema.nn /\ schema.chk = "absent"

\* The statements of add_fk_field that a schema still lacks
RemainingFkSteps(s, o) ==
    (IF ~s.col THEN <<"ADD_NULL_COLUMN">> ELSE <<>>)
    \o (IF o.db_index /\ s.fkidx # "valid"
        THEN <<"SET_LOCK_TIMEOUT_ZERO">>
             \o (IF s.fkidx = "invalid" THEN <<"DROP_INDEX">> ELSE <<>>)
             \o <<"CREATE_INDEX", "SET_LOCK_TIMEOUT_ORIGINAL">>
        ELSE <<>>)
    \o (IF s.fkcon = "absent" THEN <<"ADD_NOT_VALID_FK">> ELSE <<>>)
    \o (IF s.fkcon # "valid" THEN <<"VALIDATE_FK">> ELSE <<>>)

\* C3: add_fk_field is reentrant.  However often the run was interrupted, the
\* invocation that returns leaves the column, a valid index if db_index is
\* set and the validated constraint, and has issued exactly the steps that
\* were still missing: none but introspection queries when nothing was
\* missing.  When the first run began before the constraint existed, none of
\* its statements is ever rejected: an invocation that is not interrupted
\* returns unless its index build fails.
C3_AddFkFieldReentrant ==
    (op.kind = "add_fk_field" /\ op.allow /\ op.null /\ ~op.collect) =>
        /\ pc = "returned" =>
              /\ schema.col /\ schema.fkcon = "valid"
              /\ op.db_index => schema.fkidx = "valid"
              /\ Mutating(stmts) = RemainingFkSteps(start, op)
        /\ (origin.fkcon = "absent" /\ Completed) =>
              \/ pc = "returned"
              \/ oexc = "NotSupportedError"
              \/ oexc = "OperationalError" /\ schema.fkidx = "invalid"

C3_Witness ==
    /\ op.kind = "add_fk_field" /\ op.db_index /\ origin = DefaultSchema
    /\ pc = "returned" /\ prior = "interrupted"
    /\ start = [DefaultSchema EXCEPT !.col = TRUE, !.fkidx = "invalid"]
    /\ schema = [DefaultSchema EXCEPT !.col = TRUE, !.fkidx = "valid",
                                      !.fkcon = "valid"]

(***************************************************************************)
(* The guards every manager starts with                                    *)
(***************************************************************************)
\* The manager of the operation exists: ForeignKeyManager is only built for a
\* field with null=True
Constructible(o) == o.kind \in {"add_fk_field", "drop_fk_field"} => o.null

\* C16: every operation manager invoked on a connection that is inside an
\* open transaction block fails with NotSupportedError before it issues any
\* statement, whatever the router would answer.
C16_RefusesInsideTransaction ==
    (invoked > 0 /\ InAtomicBlock(conn) /\ Constructible(op)) =>
        /\ pc = "raised"
        /\ oexc = "NotSupportedError"
        /\ stmts = <<>>
        /\ schema = origin

\* An operation the router would deny was refused inside a transaction
C16_Witness ==
    /\ invoked > 0 /\ InAtomicBlock(conn)
    /\ ~op.allow
    /\ op.kind = "set_not_null"
    /\ oexc = "NotSupportedError"

\* C17: when the router denies the model, every manager (invoked outside a
\* transaction block, where C16's refusal does not come first) returns
\* without executing any statement: no introspection, no lock_timeout
\* statement, no DDL; and the schema is unchanged.
C17_RouterDenialRunsNothing ==
    (invoked > 0 /\ ~op.allow) =>
        /\ stmts = <<>>
        /\ schema = origin
        /\ conn \in OpsConnections
        /\ (~InAtomicBlock(conn) /\ Constructible(op)) => pc = "returned"

\* A denied create_index returned and left the invalid index where it was
C17_Witness ==
    /\ invoked > 0 /\ ~op.allow /\ pc = "returned"
    /\ op.kind = "create_index"
    /\ schema.idx = "invalid"

(***************************************************************************)
(* The collecting schema editor (collect_sql=True)                         *)
(***************************************************************************)
\* C18 as stated: with a collecting schema editor the operations execute no
\* statement against the database (no SET lock_timeout, no introspection, no
\* DDL); the statements are only appended to the editor's collected SQL.
C18_CollectOnlyExecutesNothing ==
    (op.collect /\ invoked > 0) =>
        /\ stmts = <<>>
        /\ schema = origin
        /\ conn \in OpsConnections

(***************************************************************************)
(* The statements of safer_create_index, in order                          *)
(***************************************************************************)
IsPrefix(a, b) == Len(a) <= Len(b) /\ SubSeq(b, 1, Len(a)) = a

\* The sequence the claim gives for a target index in the state i
ClaimedCreateIndex(i) ==
    <<"SHOW_LOCK_TIMEOUT", "SET_LOCK_TIMEOUT_ZERO", "CHECK_INVALID_INDEX">>
    \o (IF i = "invalid" THEN <<"DROP_INDEX">> ELSE <<>>)
    \o <<"CREATE_INDEX", "SET_LOCK_TIMEOUT_ORIGINAL">>

\* An invocation of the operation that executes its statements
Executes == invoked > 0 /\ op.allow /\ ~op.collect /\ ~InAtomicBlock(conn)

\* C19: safer_create_index issues exactly, in this order: SHOW lock_timeout;
\* SET lock_timeout to 0; the invalid-index check; if an invalid index of the
\* name exists, DROP INDEX CONCURRENTLY IF EXISTS; CREATE INDEX CONCURRENTLY
\* IF NOT EXISTS; SET lock_timeout back to the value shown at the start.  An
\* invocation that is cut short has issued a prefix of the sequence.
C19_CreateIndexStatementOrder ==
    (Executes /\ op.kind = "create_index") =>
        /\ IsPrefix(stmts, ClaimedCreateIndex(start.idx))
        /\ pc = "returned" =>
              /\ stmts = ClaimedCreateIndex(start.idx)
              /\ ShowGuc(conn.sess.lock_timeout) = orig
              /\ schema.idx = "valid"

\* An invalid index was dropped and built again on a session whose
\* lock_timeout was not 0 and is in force again
C19_Witness ==
    /\ Executes /\ op.kind = "create_index" /\ pc = "returned"
    /\ start.idx = "invalid" /\ schema.idx = "valid"
    /\ Len(stmts) = 6 /\ stmts[4] = "DROP_INDEX"
    /\ orig # <<0, "">>

\* Every statement x of seq comes after a statement y
Preceded(seq, x, y) ==
    \A i \in 1..Len(seq) : seq[i] = x => \E j \in 1..(i - 1) : seq[j] = y

\* A unique index is being built where an invalid index of its name exists
BuildsUniqueOverInvalid ==
    Executes /\ op.kind = "create_constraint" /\ start.idx = "invalid"

\* C20 as stated: the invalid index is detected and dropped concurrently
\* before lock_timeout is set to 0; only after the drop is lock_timeout zeroed
\* and the unique index created.
C20_DropBeforeZeroLockTimeout ==
    BuildsUniqueOverInvalid =>
        /\ Preceded(stmts, "SET_LOCK_TIMEOUT_ZERO", "DROP_INDEX")
        /\ Preceded(stmts, "DROP_INDEX", "CHECK_INVALID_INDEX")
        /\ Preceded(stmts, "CREATE_INDEX", "SET_LOCK_TIMEOUT_ZERO")

\* C20, amended: lock_timeout is set to 0 first; the invalid index is
\* detected and dropped concurrently after that, with lock_timeout at 0, and
\* then the unique index is created concurrently, still with lock_timeout 0.
C20_ZeroLockTimeoutBeforeDrop ==
    BuildsUniqueOverInvalid =>
        /\ Preceded(stmts, "CHECK_INVALID_INDEX", "SET_LOCK_TIMEOUT_ZERO")
        /\ Preceded(stmts, "DROP_INDEX", "CHECK_INVALID_INDEX")
        /\ Preceded(stmts, "CREATE_INDEX", "DROP_INDEX")
        /\ (pc = "running" /\ Head(plan) \in {"DROP_INDEX", "CREATE_INDEX"}) =>
              conn.sess.lock_timeout = 0
        /\ pc = "returned" => Len(SelectSeq(stmts, LAMBDA x : x = "DROP_INDEX")) = 1

\* The unique constraint was added over an index that had been invalid
C20_Witness ==
    /\ BuildsUniqueOverInvalid /\ pc = "returned" /\ ~op.condition
    /\ schema.uq /\ schema.idx = "valid"
    /\ \E i \in 1..Len(stmts) : stmts[i] = "DROP_INDEX"

(***************************************************************************)
(* safer_drop_index                                                        *)
(***************************************************************************)
\* C21 as stated: safer_drop_index first checks whether the index exists; if
\* it is absent the call is a no-op (no lock_timeout change, no DROP);
\* otherwise it sets lock_timeout to 0, drops the index concurrently and
\* restores lock_timeout.
C21_DropChecksExistence ==
    (Executes /\ op.kind = "drop_index") =>
        IF start.idx = "absent"
        THEN Mutating(stmts) = <<>>
        ELSE pc = "returned" =>
                Mutating(stmts) = <<"SET_LOCK_TIMEOUT_ZERO", "DROP_INDEX",
                                    "SET_LOCK_TIMEOUT_ORIGINAL">>

\* C21, amended: safer_drop_index never looks whether the index exists.  In
\* every case it issues SHOW lock_timeout, SET lock_timeout to 0, DROP INDEX
\* CONCURRENTLY IF EXISTS and SET lock_timeout back to the value shown; on an
\* absent index the DROP changes nothing.
C21_DropAlwaysIssuesDrop ==
    (Executes /\ op.kind = "drop_index") =>
        LET all == <<"SHOW_LOCK_TIMEOUT", "SET_LOCK_TIMEOUT_ZERO", "DROP_INDEX",
                     "SET_LOCK_TIMEOUT_ORIGINAL">>
        IN /\ IsPrefix(stmts, all)
           /\ pc # "running" => pc = "returned" \/ oexc = "Interrupted"
           /\ pc = "returned" =>
                 /\ stmts = all
                 /\ schema.idx = "absent"
                 /\ ShowGuc(conn.sess.lock_timeout) = orig
           /\ start.idx = "absent" => schema = start

\* The drop of an index that was not there, under a lock_timeout that was not 0
C21_Witness ==
    /\ Executes /\ op.kind = "drop_index" /\ pc = "returned"
    /\ start.idx = "absent"
    /\ Len(stmts) = 4
    /\ orig # <<0, "">>

(***************************************************************************)
(* create_constraint and drop_constraint                                   *)
(***************************************************************************)
Range(seq) == {seq[i] : i \in 1..Len(seq)}

Count(seq, x) == Cardinality({i \in 1..Len(seq) : seq[i] = x})

\* C22: create_constraint issues ALTER TABLE ... ADD CONSTRAINT ... UNIQUE
\* USING INDEX exactly when the constraint has no condition, after the one
\* CREATE UNIQUE INDEX of the invocation and over the index that one left
\* valid; with a condition it builds the unique index only.
C22_AddUsingIndexIffNoCondition ==
    (Executes /\ op.kind = "create_constraint") =>
        /\ Count(stmts, "CREATE_INDEX") <= 1
        /\ Count(stmts, "ADD_UNIQUE_USING_INDEX") <= 1
        /\ "ADD_UNIQUE_USING_INDEX" \in Range(stmts) =>
              /\ ~op.condition
              /\ Preceded(stmts, "ADD_UNIQUE_USING_INDEX", "CREATE_INDEX")
        /\ (pc = "returned" /\ ~op.condition /\ ~start.uq) =>
              /\ Mutating(stmts)[Len(Mutating(stmts))] = "ADD_UNIQUE_USING_INDEX"
              /\ schema.uq /\ schema.idx = "valid"
        /\ (pc = "returned" /\ op.condition) =>
              /\ "CREATE_INDEX" \in Range(stmts)
              /\ schema.uq = start.uq /\ schema.idx = "valid"

\* A constraint without condition was added over the index built for it
C22_Witness ==
    /\ Executes /\ op.kind = "create_constraint" /\ ~op.condition
    /\ pc = "returned" /\ start.idx = "absent" /\ schema.uq
    /\ Count(stmts, "CREATE_INDEX") = 1

\* C23 as stated: when the constraint name already exists, create_constraint
\* raises ConstraintAlreadyExists if raise_if_exists, returns otherwise, and
\* in both cases has executed the constraint-existence query and nothing else.
C23_ExistingNameRaisesOrReturns ==
    (Executes /\ op.kind = "create_constraint" /\ start.uq) =>
        /\ stmts = <<"CHECK_EXISTING_CONSTRAINT">>
        /\ schema = start
        /\ IF op.raise_if_exists
           THEN pc = "raised" /\ oexc = "ConstraintAlreadyExists"
           ELSE pc = "returned"

\* C23, amended: the same of a constraint without a condition.
C23_ExistingNameUnconditional ==
    (Executes /\ op.kind = "create_constraint" /\ start.uq /\ ~op.condition) =>
        /\ stmts = <<"CHECK_EXISTING_CONSTRAINT">>
        /\ schema = start
        /\ IF op.raise_if_exists
           THEN pc = "raised" /\ oexc = "ConstraintAlreadyExists"
           ELSE pc = "returned"

\* ConstraintAlreadyExists was raised
C23_Witness ==
    /\ Executes /\ op.kind = "create_constraint" /\ start.uq /\ ~op.condition
    /\ op.raise_if_exists /\ pc = "raised"

\* C24: drop_constraint without a condition runs the existence query alone
\* when there is no constraint, and otherwise a plain ALTER TABLE ... DROP
\* CONSTRAINT with no lock_timeout statement around it; with a condition it
\* drops the backing index through safer_drop_index.
C24_DropConstraintSteps ==
    (Executes /\ op.kind = "drop_constraint") =>
        IF op.condition
        THEN LET all == <<"SHOW_LOCK_TIMEOUT", "SET_LOCK_TIMEOUT_ZERO",
                          "DROP_INDEX", "SET_LOCK_TIMEOUT_ORIGINAL">>
             IN /\ IsPrefix(stmts, all)
                /\ pc = "returned" => stmts = all /\ schema.idx = "absent"
        ELSE IF ~start.uq
             THEN /\ stmts = <<"CHECK_EXISTING_CONSTRAINT">>
                  /\ pc = "returned" /\ schema = start
             ELSE LET all == <<"CHECK_EXISTING_CONSTRAINT",
                               "DROP_UNIQUE_CONSTRAINT">>
                  IN /\ IsPrefix(stmts, all)
                     /\ pc # "running" =>
                           pc = "returned" \/ oexc = "Interrupted"
                     /\ pc = "returned" => stmts = all /\ ~schema.uq

\* A unique constraint was dropped under a lock_timeout that is not 0
C24_Witness ==
    /\ Executes /\ op.kind = "drop_constraint" /\ ~op.condition
    /\ start.uq /\ pc = "returned" /\ ~schema.uq
    /\ ShowGuc(conn.sess.lock_timeout) # <<0, "">>

(***************************************************************************)
(* set_not_null, statement by statement                                    *)
(***************************************************************************)
\* C25: set_not_null on a nullable column without helper constraint issues
\* exactly six statements, in this order: the not-null check, the
\* constraint-exists check, ADD CONSTRAINT ... CHECK ... NOT VALID, VALIDATE
\* CONSTRAINT, SET NOT NULL, DROP CONSTRAINT.
C25_SetNotNullSixStatements ==
    (Executes /\ op.kind = "set_not_null" /\ ~start.nn /\ start.chk = "absent") =>
        LET all == <<"IS_COLUMN_NOT_NULL", "CHECK_EXISTING_CONSTRAINT",
                     "ADD_NOT_VALID_CHECK", "VALIDATE_CHECK", "SET_NOT_NULL",
                     "DROP_CHECK">>
        IN /\ IsPrefix(stmts, all)
           /\ Len(stmts) >= 2
           /\ pc # "running" => pc = "returned" \/ oexc = "Interrupted"
           /\ pc = "returned" =>
                 /\ stmts = all
                 /\ schema.nn /\ schema.chk = "absent"

\* The six statements have run
C25_Witness ==
    /\ Executes /\ op.kind = "set_not_null" /\ ~start.nn /\ start.chk = "absent"
    /\ pc = "returned" /\ Len(stmts) = 6

\* C26 as stated: set_not_null on a column that is NOT NULL and has no helper
\* constraint left issues exactly one check statement and changes nothing.
C26_RerunIssuesOneCheck ==
    (Executes /\ op.kind = "set_not_null" /\ start.nn /\ start.chk = "absent") =>
        /\ Len(stmts) = 1
        /\ Mutating(stmts) = <<>>
        /\ pc = "returned" /\ schema = start

\* C26, amended: it issues exactly two check statements, the not-null check
\* and the constraint-exists check, and changes nothing.
C26_RerunIssuesTwoChecks ==
    (Executes /\ op.kind = "set_not_null" /\ start.nn /\ start.chk = "absent") =>
        /\ stmts = <<"IS_COLUMN_NOT_NULL", "CHECK_EXISTING_CONSTRAINT">>
        /\ pc = "returned" /\ schema = start

\* The invocation that follows the one which set the column NOT NULL
C26_Witness ==
    /\ Executes /\ op.kind = "set_not_null" /\ start.nn /\ start.chk = "absent"
    /\ ~origin.nn /\ prior = "returned" /\ invoked = 2
    /\ pc = "returned"

(***************************************************************************)
(* The foreign key manager                                                 *)
(***************************************************************************)
IsFk(o) == o.kind \in {"add_fk_field", "drop_fk_field"}

\* C27: for a foreign key field with null=False the operation raises
\* ValueError when it builds its manager, in the forward and in the backward
\* direction, before any statement is issued or collected, whatever the
\* transaction state, the router and the schema editor's mode.
C27_NotNullFkRejected ==
    (invoked > 0 /\ IsFk(op) /\ ~op.null) =>
        /\ pc = "raised" /\ oexc = "ValueError"
        /\ stmts = <<>> /\ collected = <<>>
        /\ schema = origin

\* The backward direction was refused on a table that has the column
C27_Witness ==
    /\ invoked > 0 /\ op.kind = "drop_fk_field" /\ ~op.null
    /\ op.allow /\ ~InAtomicBlock(conn) /\ schema.col
    /\ oexc = "ValueError"

ClaimedAddFk(o) ==
    <<"CHECK_COLUMN_EXISTS", "ADD_NULL_COLUMN">>
    \o (IF o.db_index
        THEN <<"SHOW_LOCK_TIMEOUT", "SET_LOCK_TIMEOUT_ZERO",
               "CHECK_INVALID_INDEX", "CREATE_INDEX",
               "SET_LOCK_TIMEOUT_ORIGINAL">>
        ELSE <<>>)
    \o <<"ADD_NOT_VALID_FK", "VALIDATE_FK">>

\* C28: add_fk_field on a table without the column issues, in this order:
\* the column-exists check, ADD COLUMN IF NOT EXISTS ... NULL, the statements
\* of the safe index build if and only if db_index, ADD CONSTRAINT ... FOREIGN
\* KEY ... NOT VALID, VALIDATE CONSTRAINT; without db_index there is no index
\* statement and no lock_timeout statement.
C28_AddFkFieldFromScratch ==
    (Executes /\ op.kind = "add_fk_field" /\ op.null /\ ~start.col) =>
        /\ IsPrefix(stmts, ClaimedAddFk(op))
        /\ Len(stmts) >= 1
        /\ pc = "returned" =>
              /\ stmts = ClaimedAddFk(op)
              /\ schema.col /\ schema.fkcon = "valid"
              /\ schema.fkidx = (IF op.db_index THEN "valid" ELSE "absent")

\* A foreign key was added without an index
C28_Witness ==
    /\ Executes /\ op.kind = "add_fk_field" /\ op.null /\ ~start.col
    /\ ~op.db_index /\ pc = "returned" /\ Len(stmts) = 4

\* C29: create_constraint without a condition, invoked on what an interrupted
\* run left behind (an invalid or a valid index of the name and no
\* constraint), drops the invalid index if there is one, makes sure the
\* unique index exists and adds the constraint: when it returns the schema is
\* the one an uninterrupted run ends in, and it never fails on what it found.
C29_CreateConstraintReentrant ==
    (/\ Executes /\ op.kind = "create_constraint" /\ ~op.condition
     /\ ~start.uq /\ start.idx \in {"invalid", "valid"}) =>
        /\ IsPrefix(stmts, <<"CHECK_EXISTING_CONSTRAINT">>
                           \o ClaimedCreateIndex(start.idx)
                           \o <<"ADD_UNIQUE_USING_INDEX">>)
        /\ Completed => pc = "returned" \/ oexc = "OperationalError"
        /\ pc = "returned" =>
              schema = [DefaultSchema EXCEPT !.idx = "valid", !.uq = TRUE]

\* The invocation after one whose index build failed
C29_Witness ==
    /\ Executes /\ op.kind = "create_constraint" /\ ~op.condition
    /\ origin.idx = "absent" /\ ~origin.uq
    /\ prior = "raised" /\ start.idx = "invalid"
    /\ pc = "returned" /\ schema.uq

(***************************************************************************)
(* build_postgres_identifier                                               *)
(***************************************************************************)
MAX_POSTGRES_IDENTIFIER_LEN == 63

MaxPartLen == 40

MaxSuffixLen == 60

\* A string is the sequence of its characters
Str(c, n) == [i \in 1..n |-> c]

\* sep.join(parts)
RECURSIVE Join(_, _)
Join(parts, sep) ==
    IF parts = <<>> THEN <<>>
    ELSE IF Len(parts) = 1 THEN parts[1]
         ELSE parts[1] \o sep \o Join(Tail(parts), sep)

\* s[:k], with Python's reading of a negative k
Slice(s, k) ==
    IF k >= 0 THEN SubSeq(s, 1, Min(k, Len(s)))
    ELSE SubSeq(s, 1, Max(Len(s) + k, 0))

HexDigits ==
    <<"0", "1", "2", "3", "4", "5", "6", "7", "8", "9", "a", "b", "c", "d",
      "e", "f">>

Ord(c) ==
    CASE c = "a" -> 97 [] c = "b" -> 98 [] c = "s" -> 115 [] c = "_" -> 95
      [] OTHER -> 63

\* The sum of (i + m) * Ord(s[i]) over the characters lo..hi of s
RECURSIVE Weigh(_, _, _, _)
Weigh(s, lo, hi, m) ==
    IF lo > hi THEN 0
    ELSE IF lo = hi THEN (lo + m) * Ord(s[lo])
         ELSE LET mid == (lo + hi) \div 2
              IN Weigh(s, lo, mid, m) + Weigh(s, mid + 1, hi, m)

\* A 16-bit digest of s
Mix(s, m) == Weigh(s, 1, Len(s), m) % 65536

Hex4(n) ==
    <<HexDigits[(n \div 4096) + 1], HexDigits[((n \div 256) % 16) + 1],
      HexDigits[((n \div 16) % 16) + 1], HexDigits[(n % 16) + 1]>>

\* hashlib.md5(s.encode()).hexdigest(): hexadecimal digits that depend on the
\* whole string (the digest itself is not MD5's)
Md5HexDigest(s) ==
    Hex4(Mix(s, 31)) \o Hex4(Mix(s, 17))
    \o Hex4(Mix(s, 13)) \o Hex4(Mix(s, 7))

build_postgres_identifier(items, suffix) ==
    LET base_name == Join(Append(items, suffix), <<"_">>)
        hash_len == 8
        hash_val == SubSeq(Md5HexDigest(base_name), 1, hash_len)
        chop_threshold ==
            MAX_POSTGRES_IDENTIFIER_LEN - (Len(suffix) + hash_len + 2)
        chopped_name == Slice(base_name, chop_threshold)
    IN IF Len(base_name) <= MAX_POSTGRES_IDENTIFIER_LEN THEN base_name
       ELSE chopped_name \o <<"_">> \o hash_val \o <<"_">> \o suffix

PartLens == {1, 20, 32, MaxPartLen}

SuffixLens == {2, 6, 53, 54, MaxSuffixLen}

\* The arguments of a call: one or two parts and a suffix
IdentifierCalls ==
    {[items |-> i, suffix |-> Str("s", n), name |-> <<>>, built |-> FALSE] :
        i \in {<<Str("a", m)>> : m \in PartLens}
              \cup {<<Str("a", m), Str("b", k)>> : m \in PartLens, k \in PartLens},
        n \in SuffixLens}

IdentInit ==
    /\ OpsIdle
    /\ conn = NewConnection
    /\ ctx = <<>> /\ exc = NoExc /\ lastExit = NoExit /\ opened = 0
    /\ rpc = "off" /\ opts = IdleOptions
    /\ retries = 0 /\ rframe = NoFrame /\ rexc = NoExc
    /\ attempts = 0 /\ trace = <<>> /\ slept = <<>> /\ report = <<>>
    /\ ident \in IdentifierCalls

\* The call returns
BuildIdentifier ==
    /\ ~ident.built
    /\ ident' = [ident EXCEPT
                    !.name = build_postgres_identifier(ident.items, ident.suffix),
                    !.built = TRUE]
    /\ UNCHANGED <<connVars, runVars, schema, op, pc, plan, oexc, orig, stmts,
                   collected, start, origin, prior, invoked>>

SpecIdent == IdentInit /\ [][BuildIdentifier]_vars

\* The name has the form {prefix of base}_{8 hex digits}_{suffix}
Summarised(name, base, suffix) ==
    LET k == Len(name) - Len(suffix) - 10
    IN /\ k >= 0
       /\ SubSeq(name, 1, k) = SubSeq(base, 1, k)
       /\ name[k + 1] = "_" /\ name[k + 10] = "_"
       /\ \A j \in (k + 2)..(k + 9) : name[j] \in Range(HexDigits)
       /\ SubSeq(name, k + 11, Len(name)) = suffix

\* C30: the name build_postgres_identifier returns is never longer than 63
\* characters, whatever the parts and the suffix; a joined string of at most
\* 63 characters is returned unchanged, a longer one as
\* {truncated prefix}_{8 hex digits}_{suffix}.
C30_IdentifierWithinLimit ==
    ident.built =>
        LET base == Join(Append(ident.items, ident.suffix), <<"_">>)
        IN /\ Len(ident.name) <= 63
           /\ Len(base) <= 63 => ident.name = base
           /\ Len(base) > 63 => Summarised(ident.name, base, ident.suffix)

\* What does hold: the same for a suffix of at most 53 characters
ShortSuffixWithinLimit ==
    (ident.built /\ Len(ident.suffix) <= 53) =>
        LET base == Join(Append(ident.items, ident.suffix), <<"_">>)
        IN /\ Len(ident.name) <= 63
           /\ Len(base) <= 63 => ident.name = base
           /\ Len(base) > 63 =>
                 /\ Len(ident.name) = 63
                 /\ Summarised(ident.name, base, ident.suffix)

(***************************************************************************)
(* lock_timeout around the concurrent statements                           *)
(***************************************************************************)
\* The statement that was rejected or failed, if the invocation raised on one
FailedOn(label) ==
    /\ pc = "raised" /\ oexc \in {"OperationalError", "ProgrammingError"}
    /\ stmts # <<>> /\ stmts[Len(stmts)] = label

\* C31: when the invalid-index drop, CREATE INDEX CONCURRENTLY or DROP INDEX
\* CONCURRENTLY raises while lock_timeout is zeroed, the session's
\* lock_timeout is back at the value it had on entry when the error leaves
\* the manager.
C31_LockTimeoutRestoredOnError ==
    (/\ Executes
     /\ FailedOn("CREATE_INDEX") \/ FailedOn("DROP_INDEX")
     /\ "SET_LOCK_TIMEOUT_ZERO" \in Range(stmts)) =>
        ShowGuc(conn.sess.lock_timeout) = orig

\* What does hold: the value is restored when the manager returns
LockTimeoutRestoredOnReturn ==
    (Executes /\ pc = "returned" /\ "SET_LOCK_TIMEOUT_ZERO" \in Range(stmts)) =>
        ShowGuc(conn.sess.lock_timeout) = orig

(***************************************************************************)
(* The runner: what an attempt's lock timeout leads to                     *)
(***************************************************************************)
\* The wrapped migrate has just failed with a lock timeout and the runner is
\* about to leave the apply_timeouts block
MigrationLockTimeout ==
    /\ rpc = "exit"
    /\ \/ rexc.cls = "OperationalError" /\ rexc.msg = LockMsg
       \/ rexc.cls = "DBLockTimeoutError"

\* C32: an attempt whose wrapped migration fails with a lock timeout leaves
\* the apply_timeouts block as DBLockTimeoutError and enters the retry
\* handler, also when the migration left the connection inside an aborted
\* transaction.
C32_LockTimeoutAlwaysRetried ==
    [][MigrationLockTimeout =>
          rpc' = "increment" /\ rexc'.cls = "DBLockTimeoutError"]_vars

\* What does hold: the same when the migration left no transaction open
LockTimeoutRetriedWithoutLeak ==
    [][(MigrationLockTimeout /\ ~InAtomicBlock(conn)) =>
          rpc' = "increment" /\ rexc'.cls = "DBLockTimeoutError"]_vars

(***************************************************************************)
(* Statements that wait for their check                                    *)
(***************************************************************************)
\* The step executes the statement label
Executing(label) ==
    /\ pc = "running" /\ plan # <<>> /\ Head(plan) = label
    /\ stmts' = Append(stmts, label)

\* C33: in every execution of set_not_null, from every starting schema,
\* ALTER COLUMN ... SET NOT NULL is issued only when the helper CHECK (col IS
\* NOT NULL) constraint exists and is valid.
C33_SetNotNullOnlyOverValidCheck ==
    [][(op.kind = "set_not_null" /\ Executing("SET_NOT_NULL")) =>
          schema.chk = "valid"]_vars

\* SET NOT NULL was issued in a run that found the helper constraint NOT VALID
C33_Witness ==
    /\ Executes /\ op.kind = "set_not_null"
    /\ start.chk = "notvalid" /\ ~start.nn
    /\ "SET_NOT_NULL" \in Range(stmts) /\ schema.nn

\* C34: from every starting schema, add_fk_field issues ADD CONSTRAINT ...
\* FOREIGN KEY ... NOT VALID only when no constraint of that name exists,
\* also where the column and the constraint exist and no valid index does.
C34_AddFkOnlyWithoutConstraint ==
    [][(op.kind = "add_fk_field" /\ Executing("ADD_NOT_VALID_FK")) =>
          schema.fkcon = "absent"]_vars

\* What does hold: the same of the invocations that find a valid index, or
\* that need none
AddFkCheckedWhereIndexFound ==
    [][(/\ op.kind = "add_fk_field" /\ Executing("ADD_NOT_VALID_FK")
        /\ (~op.db_index \/ start.fkidx = "valid" \/ ~start.col)) =>
          schema.fkcon = "absent"]_vars

(***************************************************************************)
(* set_null after set_not_null                                             *)
(***************************************************************************)
\* What a complete or an interrupted set_not_null leaves of a nullable column
\* without helper constraint: <<NOT NULL, helper constraint>>
EnableStates ==
    {<<FALSE, "absent">>, <<FALSE, "notvalid">>, <<FALSE, "valid">>,
     <<TRUE, "valid">>, <<TRUE, "absent">>}

\* The invocations of set_not_null stay within these states
EnableStaysWithin ==
    (op.kind = "set_not_null" /\ ~origin.nn /\ origin.chk = "absent") =>
        <<schema.nn, schema.chk>> \in EnableStates

\* C35: after set_null returns, from any schema that complete or interrupted
\* runs of set_not_null can leave, the column is nullable and no helper
\* CHECK (col IS NOT NULL) constraint remains on the table.
C35_SetNullLeavesNoHelper ==
    (/\ Executes /\ op.kind = "set_null" /\ pc = "returned"
     /\ <<start.nn, start.chk>> \in EnableStates) =>
        ~schema.nn /\ schema.chk = "absent"

\* What does hold: the column is not NOT NULL, and the helper constraint is
\* where set_null found it
SetNullDropsNotNullOnly ==
    (Executes /\ op.kind = "set_null" /\ pc = "returned") =>
        ~schema.nn /\ schema.chk = start.chk

(***************************************************************************)
(* ADD CONSTRAINT after the concurrent build                               *)
(***************************************************************************)
\* C36: create_constraint executes ALTER TABLE ... ADD CONSTRAINT ... UNIQUE
\* USING INDEX only after lock_timeout has been set back to the value it had
\* before the index build: the statement right before it is the SET that
\* restores it, and the session's lock_timeout is the value SHOWn before the
\* build, not the 0 the build ran under.
C36_AddConstraintAfterRestore ==
    [][(op.kind = "create_constraint"
          /\ Executing("ADD_UNIQUE_USING_INDEX")) =>
          /\ stmts # <<>>
          /\ stmts[Len(stmts)] = "SET_LOCK_TIMEOUT_ORIGINAL"
          /\ Preceded(stmts, "SET_LOCK_TIMEOUT_ORIGINAL", "CREATE_INDEX")
          /\ ShowGuc(conn.sess.lock_timeout) = orig
          /\ conn.eff.lock_timeout = conn.sess.lock_timeout]_vars

\* The constraint was added under the lock_timeout of 1s the session had
C36_Witness ==
    /\ Executes /\ op.kind = "create_constraint" /\ ~op.condition
    /\ pc = "returned" /\ schema.uq /\ ~start.uq
    /\ stmts[Len(stmts)] = "ADD_UNIQUE_USING_INDEX"
    /\ orig = <<1, "s">> /\ ShowGuc(conn.sess.lock_timeout) = <<1, "s">>

(***************************************************************************)
(* The runner: sleeps and callbacks counted                                *)
(***************************************************************************)
Events(ev) == {i \in 1..Len(trace) : trace[i].ev = ev}

\* C37: a run that exhausts its retries with max_retries = k has slept
\* exactly k times and has invoked the callback (if one is configured)
\* exactly k+1 times: the final failed attempt is followed by no sleep, but
\* by the callback, before MaximumRetriesReached is raised.
C37_SleepsAndCallbacksAtExhaustion ==
    (rpc = "raised" /\ rexc.cls = "MaximumRetriesReached") =>
        LET k == opts.max_retries
        IN /\ Len(slept) = k
           /\ Cardinality(Events("sleep")) = k
           /\ Cardinality(Events("callback")) = (IF opts.callback THEN k + 1 ELSE 0)
           /\ Cardinality(Events("attempt")) = k + 1
           /\ \A i \in Events("attempt") : \A j \in Events("sleep") :
                 trace[i].n = k => j < i
           /\ opts.callback =>
                 /\ trace[Len(trace)] = Event("callback", k + 1)
                 /\ trace[Len(trace) - 1] = Event("increment", k + 1)

\* Two retries were used up, with a callback configured
C37_Witness ==
    /\ rpc = "raised" /\ rexc.cls = "MaximumRetriesReached"
    /\ opts.callback /\ opts.max_retries = 2
    /\ Len(slept) = 2 /\ Cardinality(Events("callback")) = 3

\* C38: when the first j <= max_retries attempts fail with lock timeouts and
\* attempt j+1 succeeds, the runner returns after exactly j+1 attempts, j
\* sleeps and j callback invocations (if a callback is configured), and
\* MaximumRetriesReached is raised only after more than max_retries lock
\* timeouts.
C38_SuccessAfterRetries ==
    /\ rpc = "done" =>
          LET j == Cardinality(Events("lock_timeout"))
          IN /\ j <= opts.max_retries
             /\ retries = j
             /\ attempts = j + 1
             /\ Cardinality(Events("attempt")) = j + 1
             /\ Len(slept) = j
             /\ Cardinality(Events("sleep")) = j
             /\ Cardinality(Events("callback")) = (IF opts.callback THEN j ELSE 0)
             /\ trace[Len(trace)] = Event("attempt", j)
    /\ (rpc = "raised" /\ rexc.cls = "MaximumRetriesReached") =>
          Cardinality(Events("lock_timeout")) > opts.max_retries

\* The third attempt succeeded with max_retries = 2
C38_Witness ==
    /\ rpc = "done" /\ opts.max_retries = 2 /\ opts.callback
    /\ attempts = 3 /\ Len(slept) = 2

(***************************************************************************)
(* Timeout errors of inner scopes                                          *)
(***************************************************************************)
TimeoutClasses == {"DBLockTimeoutError", "DBStatementTimeoutError"}

\* C39 as stated: a DBLockTimeoutError or DBStatementTimeoutError produced by
\* an inner scope passes through every enclosing apply_timeouts scope with
\* its class unchanged.
C39_TimeoutClassKept ==
    [][(ScopeUnwinds /\ exc.cls \in TimeoutClasses) =>
          exc'.cls = exc.cls]_vars

\* C39, amended: it does so through every enclosing scope but a session
\* scope whose exit finds a leaked transaction it does not close, which is
\* left as UnsupportedTimeoutBehaviour; no enclosing scope turns it into the
\* other timeout class.
C39_TimeoutClassKeptUnlessLeak ==
    [][(ScopeUnwinds /\ exc.cls \in TimeoutClasses) =>
          /\ exc'.cls \in {exc.cls, "UnsupportedTimeoutBehaviour"}
          /\ exc'.cls = "UnsupportedTimeoutBehaviour" <=> LeakStops]_vars

\* A statement-timeout error of an inner scope has left an enclosing scope
C39_Witness ==
    /\ lastExit.left
    /\ lastExit.came = "DBStatementTimeoutError"
    /\ lastExit.out = "DBStatementTimeoutError"
    /\ exc.cls = "DBStatementTimeoutError"

(***************************************************************************)
(* The runner: the timeouts during and between the attempts                *)
(***************************************************************************)
\* The timeouts the options ask for are in effect
ConfiguredInEffect ==
    /\ opts.lock_timeout # -1 => conn.eff.lock_timeout = opts.lock_timeout
    /\ opts.statement_timeout # -1 =>
          conn.eff.statement_timeout = opts.statement_timeout

\* C40: every attempt of the runner runs with the configured lock_timeout and
\* statement_timeout in effect, and whenever the runner sleeps or invokes the
\* callback between attempts the connection's timeouts are again what they
\* were before the run (every attempt's scope is entered from those values).
C40_TimeoutsDuringAndBetweenAttempts ==
    /\ rpc = "migrate" => ConfiguredInEffect
    /\ rpc \in {"increment", "wait", "callback"} =>
          /\ lastExit.left
          /\ conn.eff = lastExit.before
          /\ conn.sess = lastExit.before
    /\ (rpc = "enter" /\ attempts > 0) => conn.eff = lastExit.before

\* The run started from custom session timeouts, both timeouts are configured,
\* and the runner is about to invoke the callback after a second failed attempt
C40_Witness ==
    /\ rpc = "callback"
    /\ attempts >= 2
    /\ opts.lock_timeout = 2000
    /\ opts.statement_timeout = 60000
    /\ lastExit.out = "DBLockTimeoutError"
    /\ lastExit.before = [lock_timeout |-> 1000, statement_timeout |-> 120000]
    /\ conn.eff = lastExit.before

====
